---- MODULE Spec2Model ----
(***************************************************************************)
(* rulegopher: a rule engine.  The engine keeps a rule table               *)
(* (Engine.Rules, name -> Rule) and an inverted index (Engine.RuleIndex,   *)
(* fact name -> list of rule references kept in priority order).           *)
(*                                                                         *)
(* Modelled revision of the engine: src/pkg/engine/engine.go lines 1-179   *)
(* (the same index and Evaluate code is in src/unnamed/part_006).          *)
(* Modelled revision of the rules package: src/unnamed/part_010, the       *)
(* revision whose Rule.Validate and Rule.Evaluate(fact, bool) (bool,error) *)
(* the engine calls.                                                       *)
(*                                                                         *)
(* Representation choices:                                                 *)
(*  - A *rules.Rule held by the index points to a heap copy of the rule    *)
(*    made by AddRule/UpdateRule (&rule, &newRule).  Nothing writes        *)
(*    through that pointer (Evaluate works on ruleCopy := *rule), so an    *)
(*    index entry is modelled by the rule value it points to.              *)
(*  - A Go string that is data (a fact value, a literal) is a sequence of  *)
(*    one-character strings, so that strings.Contains and ParseFloat are   *)
(*    computed.  Identifiers (rule names, fact names, operators) are TLA+  *)
(*    strings.                                                             *)
(*  - A number is m milli-units plus t ticks of 1e-10: m/1000 + t*1e-10,   *)
(*    with |t| far below one milli-unit.  epsilon = 1e-9 is 10 ticks.      *)
(***************************************************************************)
EXTENDS Integers, Sequences, FiniteSets, TLC

(***************************************************************************)
(* Values (interface{} in Fact and Condition.Value)                        *)
(***************************************************************************)
IntVal(n) == [kind |-> "int", m |-> n * 1000, t |-> 0, str |-> <<>>, list |-> <<>>, b |-> FALSE]

FloatVal(mm, tt) == [kind |-> "float64", m |-> mm, t |-> tt, str |-> <<>>, list |-> <<>>, b |-> FALSE]

StrVal(s) == [kind |-> "string", m |-> 0, t |-> 0, str |-> s, list |-> <<>>, b |-> FALSE]

BoolVal(x) == [kind |-> "bool", m |-> 0, t |-> 0, str |-> <<>>, list |-> <<>>, b |-> x]

StrsVal(l) == [kind |-> "[]string", m |-> 0, t |-> 0, str |-> <<>>, list |-> l, b |-> FALSE]

NilVal == [kind |-> "nil", m |-> 0, t |-> 0, str |-> <<>>, list |-> <<>>, b |-> FALSE]

\* epsilon = 1e-9, in ticks of 1e-10
epsilon == 10

Abs(x) == IF x < 0 THEN -x ELSE x

Digits == <<"0", "1", "2", "3", "4", "5", "6", "7", "8", "9">>

IsDigit(c) == \E i \in 1..10 : Digits[i] = c

DigitVal(c) == (CHOOSE i \in 1..10 : Digits[i] = c) - 1

RECURSIVE DigitsToInt(_)
DigitsToInt(s) ==
    IF s = <<>> THEN 0
    ELSE 10 * DigitsToInt(SubSeq(s, 1, Len(s) - 1)) + DigitVal(s[Len(s)])

AllDigits(s) == \A i \in 1..Len(s) : IsDigit(s[i])

\* the results of strconv.ParseFloat and of convertToFloat64: (value, ok, err);
\* err is "" for nil
Float(mm, tt) == [m |-> mm, t |-> tt, ok |-> TRUE, err |-> ""]

NoFloat(err) == [m |-> 0, t |-> 0, ok |-> FALSE, err |-> err]

\* the integer digits ip and the fraction digits fp, as milli-units
ParseParts(ip, fp, sign) ==
    IF Len(ip) + Len(fp) > 0 /\ Len(fp) <= 3 /\ AllDigits(ip) /\ AllDigits(fp)
    THEN Float(sign * (DigitsToInt(ip) * 1000
                       + DigitsToInt(fp \o SubSeq(<<"0", "0", "0">>, 1, 3 - Len(fp)))), 0)
    ELSE NoFloat("ParseFloat: invalid syntax")

\* digits[.digits]
ParseDecimal(body, sign) ==
    LET dots == {i \in 1..Len(body) : body[i] = "."}
    IN  IF dots = {} THEN ParseParts(body, <<>>, sign)
        ELSE IF Cardinality(dots) > 1 THEN NoFloat("ParseFloat: invalid syntax")
        ELSE ParseParts(SubSeq(body, 1, (CHOOSE i \in dots : TRUE) - 1),
                        SubSeq(body, (CHOOSE i \in dots : TRUE) + 1, Len(body)), sign)

\* strconv.ParseFloat restricted to [-]digits[.digits] with at most three
\* fraction digits; every other string of the model is a syntax error.
ParseFloat(s) ==
    IF Len(s) > 0 /\ s[1] = "-"
    THEN ParseDecimal(SubSeq(s, 2, Len(s)), -1)
    ELSE ParseDecimal(s, 1)

\* convertToFloat64 that gives 0 for what it cannot convert
convertToFloat64_ZeroOnFailure(value) ==
    CASE value.kind = "int"     -> Float(value.m, 0)
      [] value.kind = "float64" -> Float(value.m, value.t)
      [] OTHER                  -> Float(0, 0)

\* convertToFloat64
convertToFloat64(value) ==
    CASE value.kind = "int"     -> Float(value.m, 0)
      [] value.kind = "float64" -> Float(value.m, value.t)
      [] value.kind = "string"  -> ParseFloat(value.str)
      [] OTHER                  -> NoFloat("unsupported type")

\* the comparison without the tolerance
GreaterBy_NoTolerance(a, b, d) == a.m > b.m \/ (a.m = b.m /\ a.t > b.t)

\* a > b + d ticks, for numbers [m, t]
GreaterBy(a, b, d) == a.m > b.m \/ (a.m = b.m /\ a.t > b.t + d)

\* almostEqual(a, b): diff <= epsilon, or diff <= epsilon * max(|a|, |b|).
\* Numbers of different milli-units differ by 1e-3 at least, far above both
\* bounds for the magnitudes of the model; with equal milli-units the relative
\* bound epsilon * |m| / 1000 is compared in ticks.
almostEqual(a, b) ==
    /\ a.m = b.m
    /\ \/ Abs(a.t - b.t) <= epsilon
       \/ Abs(a.t - b.t) * 1000 <= epsilon * Abs(a.m)

\* strings.Contains(s, substr)
StringsContains(s, substr) ==
    \E i \in 0..(Len(s) - Len(substr)) : SubSeq(s, i + 1, i + Len(substr)) = substr

\* contains that looks at the first element only
contains_FirstOnly(slice, str) == Len(slice) > 0 /\ slice[1] = str

\* contains(slice, str)
contains(slice, str) == \E i \in 1..Len(slice) : slice[i] = str

validOperators ==
    {"equal", "notEqual", "greaterThan", "greaterThanOrEqual",
     "lessThan", "lessThanOrEqual", "contains", "notContains"}

(***************************************************************************)
(* Conditions, rules, events                                               *)
(***************************************************************************)
Leaf(f, op, v) == [Fact |-> f, Operator |-> op, Value |-> v, All |-> <<>>, Any |-> <<>>]

Composite(all, any) == [Fact |-> "", Operator |-> "", Value |-> NilVal, All |-> all, Any |-> any]

\* Conditions{All, Any}; allNil/anyNil tell a nil slice from an empty one
Conds(all, any) == [All |-> all, Any |-> any, allNil |-> FALSE, anyNil |-> FALSE]

\* An Event.  Facts and Values are Go slices: besides their elements they have
\* a capacity, and an append that fits the capacity writes into the backing
\* array the slice shares with every copy of it.  free is cap - len of Facts
\* and of Values (one number for both; 0 for a nil slice); shared is the number
\* of elements at the end of Facts and of Values that sit, appended in place,
\* in the backing arrays of the event template of the stored rule.
Event(et) ==
    [EventType |-> et, Facts |-> <<>>, Values |-> <<>>, RuleName |-> "",
     free |-> 0, shared |-> 0]

\* result of a condition evaluation: (satisfied, facts, values, err)
Res(sat, facts, values, err) == [sat |-> sat, facts |-> facts, values |-> values, err |-> err]

Unsat == Res(FALSE, <<>>, <<>>, "")

Fail(err) == Res(FALSE, <<>>, <<>>, err)

\* a Fact is a function from the fact names it has to values
HasFact(fact, name) == name \in DOMAIN fact

\* the switch of evaluateSimpleCondition over condition.Operator; factValue is
\* fact[condition.Fact], ff and vf are convertToFloat64 of factValue and of
\* condition.Value (used by the four order comparisons only)
CompareOp(condition, factValue, ff, vf) ==
    LET op       == condition.Operator
        value    == condition.Value
        factStr  == factValue.str
        ok1      == factValue.kind = "string"
        valueStr == IF value.kind = "string" THEN value.str ELSE <<>>
        ok2      == value.kind = "string"
        ok3      == factValue.kind = "[]string"
        hit      == Res(TRUE, <<condition.Fact>>, <<factValue>>, "")
    IN  CASE op = "equal"    -> IF factValue = value THEN hit ELSE Unsat
          [] op = "notEqual" -> IF factValue # value THEN hit ELSE Unsat
          [] op \in {"greaterThan", "greaterThanOrEqual", "lessThan", "lessThanOrEqual"} ->
                (IF ff.err # "" THEN Fail("error converting fact value to float64")
                 ELSE IF vf.err # "" THEN Fail("error converting condition value to float64")
                 ELSE CASE op = "greaterThan" ->
                             IF GreaterBy(ff, vf, epsilon) THEN hit ELSE Unsat
                        [] op = "greaterThanOrEqual" ->
                             IF almostEqual(ff, vf) \/ GreaterBy(ff, vf, 0) THEN hit ELSE Unsat
                        [] op = "lessThan" ->
                             IF GreaterBy(vf, ff, epsilon) THEN hit ELSE Unsat
                        [] op = "lessThanOrEqual" ->
                             IF almostEqual(ff, vf) \/ GreaterBy(vf, ff, 0) THEN hit ELSE Unsat)
          [] op = "contains" ->
                IF \/ ok1 /\ ok2 /\ StringsContains(factStr, valueStr)
                   \/ ok3 /\ contains(factValue.list, valueStr)
                THEN hit ELSE Unsat
          [] op = "notContains" ->
                IF \/ ok1 /\ ok2 /\ ~StringsContains(factStr, valueStr)
                   \/ ok3 /\ ~contains(factValue.list, valueStr)
                THEN hit ELSE Unsat
          [] OTHER -> Unsat

\* evaluateSimpleCondition without the check of the operator
evaluateSimpleCondition_NoOperatorCheck(condition, fact) ==
    IF condition.Fact # "" /\ condition.Operator # ""
    THEN IF ~HasFact(fact, condition.Fact) THEN Unsat
         ELSE CompareOp(condition, fact[condition.Fact],
                        convertToFloat64(fact[condition.Fact]),
                        convertToFloat64(condition.Value))
    ELSE Unsat

\* Condition.evaluateSimpleCondition for a condition without nested conditions
evaluateSimpleCondition(condition, fact) ==
    IF condition.Operator \notin validOperators
    THEN Fail("invalid operator")
    ELSE IF condition.Fact # "" /\ condition.Operator # ""
    THEN IF ~HasFact(fact, condition.Fact) THEN Unsat
         ELSE CompareOp(condition, fact[condition.Fact],
                        convertToFloat64(fact[condition.Fact]),
                        convertToFloat64(condition.Value))
    ELSE Unsat

RECURSIVE evaluateConditions(_, _)

\* evaluateNestedConditions once the Any list gave ry
NestedAfterAny(ry) ==
    IF ry.err # "" THEN Fail(ry.err)
    ELSE IF ry.sat THEN Res(TRUE, ry.facts, ry.values, "")
    ELSE Unsat

\* evaluateNestedConditions once the All list gave ra
NestedAfterAll(ra, condition, fact) ==
    IF ra.err # "" THEN Fail(ra.err)
    ELSE IF ra.sat THEN Res(TRUE, ra.facts, ra.values, "")
    ELSE NestedAfterAny(evaluateConditions(condition.Any, fact))

\* Condition.evaluateNestedConditions: the All list, then the Any list
evaluateNestedConditions(condition, fact) ==
    NestedAfterAll(evaluateConditions(condition.All, fact), condition, fact)

\* Condition.Evaluate
ConditionEvaluate(condition, fact) ==
    IF Len(condition.All) > 0 \/ Len(condition.Any) > 0
    THEN evaluateNestedConditions(condition, fact)
    ELSE evaluateSimpleCondition(condition, fact)

\* one pass of the loop of evaluateConditions: r is what condition.Evaluate
\* gave for the condition at hand, rest the conditions after it
ConditionsStep(r, rest, fact) ==
    IF r.err # "" THEN Fail(r.err)
    ELSE IF r.sat THEN Res(TRUE, r.facts, r.values, "")
    ELSE evaluateConditions(rest, fact)

\* evaluateConditions: returns at the first condition that errs or is satisfied
evaluateConditions(conditions, fact) ==
    IF conditions = <<>> THEN Unsat
    ELSE ConditionsStep(ConditionEvaluate(Head(conditions), fact), Tail(conditions), fact)

\* Rule.Validate: the operators of the top-level leaves
InvalidAt(conditions) ==
    \E i \in 1..Len(conditions) :
        /\ ~(Len(conditions[i].All) > 0 \/ Len(conditions[i].Any) > 0)
        /\ conditions[i].Operator \notin validOperators

\* Validate that checks the `all` list only
Validate_AllListOnly(r) ==
    IF InvalidAt(r.Conditions.All) THEN "invalid operator" ELSE ""

Validate(r) ==
    IF InvalidAt(r.Conditions.All) \/ InvalidAt(r.Conditions.Any)
    THEN "invalid operator" ELSE ""

\* event.Facts = append(event.Facts, facts...), and the same for Values
\* append(nil...) gives the slice back; an append within the capacity writes
\* in place; any other append copies to a new array that nothing else shares
WithFacts(event, r) ==
    IF r.facts = <<>> THEN event
    ELSE IF Len(r.facts) <= event.free
    THEN [event EXCEPT !.Facts = @ \o r.facts, !.Values = @ \o r.values,
                       !.free = @ - Len(r.facts), !.shared = @ + Len(r.facts)]
    ELSE [event EXCEPT !.Facts = @ \o r.facts, !.Values = @ \o r.values,
                       !.free = 0, !.shared = 0]

\* what Rule.Evaluate leaves: (satisfied, err) and the Event of the rule copy
RuleOut(sat, err, event) == [sat |-> sat, err |-> err, Event |-> event]

\* Rule.Evaluate once the Any list gave ry; event is r.Event at that point
RuleAfterAny(ry, allSatisfied, event, r, includeTriggeringFact) ==
    IF ry.err # "" THEN RuleOut(FALSE, ry.err, event)
    ELSE IF ry.sat
         THEN RuleOut(TRUE, "", IF includeTriggeringFact THEN WithFacts(event, ry) ELSE event)
    ELSE RuleOut(Len(r.Conditions.Any) = 0 /\ allSatisfied, "", event)

\* Rule.Evaluate once the All list gave ra
RuleAfterAll(ra, r, fact, includeTriggeringFact) ==
    IF ra.err # "" THEN RuleOut(FALSE, ra.err, r.Event)
    ELSE IF ~ra.sat /\ Len(r.Conditions.All) > 0 THEN RuleOut(FALSE, "", r.Event)
    ELSE RuleAfterAny(evaluateConditions(r.Conditions.Any, fact), ra.sat,
                      IF ra.sat /\ includeTriggeringFact
                      THEN WithFacts(r.Event, ra) ELSE r.Event,
                      r, includeTriggeringFact)

\* Rule.Evaluate on a copy of the rule
RuleEvaluate(r, fact, includeTriggeringFact) ==
    RuleAfterAll(evaluateConditions(r.Conditions.All, fact), r, fact, includeTriggeringFact)

(***************************************************************************)
(* Engine: rule table and rule index                                       *)
(***************************************************************************)
\* the fact names of the model; "" is the Fact of a condition that only nests
FactNames == {"a", "b"}

IndexKeys == FactNames \cup {""}

\* NewEngine(): both maps empty.  A missing key of RuleIndex reads as a nil
\* slice everywhere in the engine, so the index is a function on IndexKeys.
EmptyTable == [n \in {} |-> 0]

EmptyIndex == [f \in IndexKeys |-> <<>>]

\* the search for the first entry whose priority is not below: the rule
\* would go in front of the entries of its own priority
Search_BeforeEqual(bucket, priority, i, j) ==
    Cardinality({k \in 1..Len(bucket) : bucket[k].Priority < priority})

\* sort.Search(n, f): binary search for the smallest i in 0..n with f(i),
\* here f(i) == bucket[i].Priority > priority (i counts from 0)
RECURSIVE Search(_, _, _, _)
Search(bucket, priority, i, j) ==
    IF i < j
    THEN LET h == (i + j) \div 2
         IN  IF ~(bucket[h + 1].Priority > priority)
             THEN Search(bucket, priority, h + 1, j)
             ELSE Search(bucket, priority, i, h)
    ELSE i

\* Engine.insertRuleIntoIndex
insertRuleIntoIndex(index, fact, rule) ==
    LET existingRules  == index[fact]
        insertionIndex == Search(existingRules, rule.Priority, 0, Len(existingRules))
    IN  [index EXCEPT ![fact] =
            SubSeq(existingRules, 1, insertionIndex) \o <<rule>> \o
            SubSeq(existingRules, insertionIndex + 1, Len(existingRules))]

\* Engine.processConditions
RECURSIVE processConditions(_, _, _)
processConditions(index, conditions, rule) ==
    IF conditions = <<>> THEN index
    ELSE LET condition == Head(conditions)
             i1 == insertRuleIntoIndex(index, condition.Fact, rule)
             i2 == IF Len(condition.All) > 0
                   THEN processConditions(i1, condition.All, rule) ELSE i1
             i3 == IF Len(condition.Any) > 0
                   THEN processConditions(i2, condition.Any, rule) ELSE i2
         IN  processConditions(i3, Tail(conditions), rule)

\* Engine.addToIndex
addToIndex(index, rule) ==
    processConditions(processConditions(index, rule.Conditions.All, rule),
                      rule.Conditions.Any, rule)

\* the inner loop of removeFromIndex: drop the first entry of that name, then break
RemoveFirst(matchingRules, ruleName) ==
    LET hits == {i \in 1..Len(matchingRules) : matchingRules[i].Name = ruleName}
    IN  IF hits = {} THEN matchingRules
        ELSE LET ruleIndex == CHOOSE i \in hits : \A k \in hits : i <= k
             IN  SubSeq(matchingRules, 1, ruleIndex - 1) \o
                 SubSeq(matchingRules, ruleIndex + 1, Len(matchingRules))

\* Engine.removeFromIndex
removeFromIndex(index, ruleName) ==
    [factName \in DOMAIN index |-> RemoveFirst(index[factName], ruleName)]

\* the table with rules[name] = rule
Put(rules, name, rule) ==
    [n \in DOMAIN rules \cup {name} |-> IF n = name THEN rule ELSE rules[n]]

\* delete(rules, name)
Delete(rules, name) == [n \in DOMAIN rules \ {name} |-> rules[n]]

\* the outcome of a mutating call: the error ("" is nil) and the engine state
Outcome(err, rules, index) == [err |-> err, Rules |-> rules, RuleIndex |-> index]

\* AddRule without the check of the name
AddRule_NoNameCheck(rules, index, rule) ==
    IF Validate(rule) # "" THEN Outcome(Validate(rule), rules, index)
    ELSE IF rule.Conditions.allNil /\ rule.Conditions.anyNil
         THEN Outcome("NilRuleConditionsError", rules, index)
    ELSE IF \E k \in DOMAIN rules : rules[k].Name = rule.Name
         THEN Outcome("RuleAlreadyExistsError", rules, index)
    ELSE Outcome("", Put(rules, rule.Name, rule), addToIndex(index, rule))

\* AddRule that overwrites a stored rule of the same name
AddRule_NoDuplicateCheck(rules, index, rule) ==
    IF rule.Name = "" THEN Outcome("EmptyRuleNameError", rules, index)
    ELSE IF Validate(rule) # "" THEN Outcome(Validate(rule), rules, index)
    ELSE IF rule.Conditions.allNil /\ rule.Conditions.anyNil
         THEN Outcome("NilRuleConditionsError", rules, index)
    ELSE Outcome("", Put(rules, rule.Name, rule), addToIndex(index, rule))

\* Engine.AddRule
AddRule(rules, index, rule) ==
    IF rule.Name = "" THEN Outcome("EmptyRuleNameError", rules, index)
    ELSE IF Validate(rule) # "" THEN Outcome(Validate(rule), rules, index)
    ELSE IF rule.Conditions.allNil /\ rule.Conditions.anyNil
         THEN Outcome("NilRuleConditionsError", rules, index)
    ELSE IF \E k \in DOMAIN rules : rules[k].Name = rule.Name
         THEN Outcome("RuleAlreadyExistsError", rules, index)
    ELSE Outcome("", Put(rules, rule.Name, rule), addToIndex(index, rule))

\* RemoveRule without the check that the rule exists
RemoveRule_NoExistCheck(rules, index, ruleName) ==
    Outcome("", Delete(rules, ruleName), removeFromIndex(index, ruleName))

\* Engine.RemoveRule
RemoveRule(rules, index, ruleName) ==
    IF ruleName \notin DOMAIN rules
    THEN Outcome("RuleDoesNotExistError", rules, index)
    ELSE Outcome("", Delete(rules, ruleName), removeFromIndex(index, ruleName))

\* UpdateRule that clears the old index entries before it validates
UpdateRule_RemoveBeforeCheck(rules, index, ruleName, newRule) ==
    IF Validate(newRule) # ""
    THEN Outcome("InvalidRuleError", rules, removeFromIndex(index, ruleName))
    ELSE IF ruleName \notin DOMAIN rules
         THEN Outcome("RuleDoesNotExistError", rules, index)
    ELSE Outcome("", Put(rules, ruleName, newRule),
                 addToIndex(removeFromIndex(index, ruleName), newRule))

\* Engine.UpdateRule
UpdateRule(rules, index, ruleName, newRule) ==
    IF Validate(newRule) # "" THEN Outcome("InvalidRuleError", rules, index)
    ELSE IF ruleName \notin DOMAIN rules
         THEN Outcome("RuleDoesNotExistError", rules, index)
    ELSE Outcome("", Put(rules, ruleName, newRule),
                 addToIndex(removeFromIndex(index, ruleName), newRule))

\* the loop body that drops the events gathered so far when a rule fails
EvaluateRule_ErrorDropsEvents(r, rule, reportRuleName, acc) ==
    IF r.err # ""
    THEN [acc EXCEPT !.tried = Append(@, rule.Name),
                     !.errors = Append(@, r.err),
                     !.failed = Append(@, rule.Name),
                     !.events = <<>>,
                     !.from = <<>>]
    ELSE IF r.sat
    THEN [acc EXCEPT !.tried = Append(@, rule.Name),
                     !.events = Append(@, IF reportRuleName
                                          THEN [r.Event EXCEPT !.RuleName = rule.Name]
                                          ELSE r.Event),
                     !.from = Append(@, rule),
                     !.evaluatedRules = @ \cup {rule.Name}]
    ELSE [acc EXCEPT !.tried = Append(@, rule.Name),
                     !.evaluatedRules = @ \cup {rule.Name}]

\* the body of the loop of Engine.Evaluate for a rule not evaluated yet: r is
\* what ruleCopy.Evaluate gave.  acc holds generatedEvents, the errors appended
\* to the multierror, evaluatedRules, and (for the properties) `from`: the rule
\* that gave each event, `tried`: the name of the rule of every call of
\* Rule.Evaluate, `failed`: the rule of each error.
EvaluateRule(r, rule, reportRuleName, acc) ==
    IF r.err # ""
    THEN [acc EXCEPT !.tried = Append(@, rule.Name),
                     !.errors = Append(@, r.err),
                     !.failed = Append(@, rule.Name)]
    ELSE IF r.sat
    THEN [acc EXCEPT !.tried = Append(@, rule.Name),
                     !.events = Append(@, IF reportRuleName
                                          THEN [r.Event EXCEPT !.RuleName = rule.Name]
                                          ELSE r.Event),
                     !.from = Append(@, rule),
                     !.evaluatedRules = @ \cup {rule.Name}]
    ELSE [acc EXCEPT !.tried = Append(@, rule.Name),
                     !.evaluatedRules = @ \cup {rule.Name}]

\* the loop of Engine.Evaluate over matchingRules
RECURSIVE EvaluateLoop(_, _, _, _, _)
EvaluateLoop(matchingRules, inputFact, reportFacts, reportRuleName, acc) ==
    IF matchingRules = <<>> THEN acc
    ELSE EvaluateLoop(Tail(matchingRules), inputFact, reportFacts, reportRuleName,
            IF Head(matchingRules).Name \in acc.evaluatedRules THEN acc
            ELSE EvaluateRule(RuleEvaluate(Head(matchingRules), inputFact, reportFacts),
                              Head(matchingRules), reportRuleName, acc))

NoResult ==
    [events |-> <<>>, errors |-> <<>>, evaluatedRules |-> {},
     from |-> <<>>, tried |-> <<>>, failed |-> <<>>]

(***************************************************************************)
(* The engine as a state machine                                           *)
(***************************************************************************)
VARIABLES
    Rules,           \* Engine.Rules
    RuleIndex,       \* Engine.RuleIndex
    ReportFacts,     \* Engine.ReportFacts
    ReportRuleName,  \* Engine.ReportRuleName
    UnmatchedFactBehavior,  \* Engine.UnmatchedFactBehavior
    last,            \* the call that returned last: its arguments and results
    removed,         \* names removed by RemoveRule and not added again since
    mu,              \* Engine.mu: its writer (0 for none) and its readers
    running          \* for each goroutine, the engine call it is in

\* the configuration of the engine
flags == <<ReportFacts, ReportRuleName, UnmatchedFactBehavior>>

\* the lock and the calls in progress
sync == <<mu, running>>

vars == <<Rules, RuleIndex, ReportFacts, ReportRuleName, UnmatchedFactBehavior, last, removed,
          mu, running>>

\* bound of the model: the longest bucket of the index
MaxBucket == 2

RuleNames == {"r1", "r2"}

\* string data
abc == <<"a", "b", "c">>

\* leaves
aGT5 == Leaf("a", "greaterThan", IntVal(5))

aLT9 == Leaf("a", "lessThan", IntVal(9))

bGT5 == Leaf("b", "greaterThan", IntVal(5))

aBad == Leaf("a", "matches", IntVal(5))

NilConds == [All |-> <<>>, Any |-> <<>>, allNil |-> TRUE, anyNil |-> TRUE]

Rule(n, p, c) == [Name |-> n, Priority |-> p, Conditions |-> c, Event |-> Event("alert")]

\* the rules that pass every check of AddRule
GoodRules ==
    { Rule("r1", 2, Conds(<<aGT5>>, <<>>)),              \* one leaf
      Rule("r1", 1, Conds(<<aGT5, aLT9>>, <<>>)),        \* one fact name in two leaves
      Rule("r2", 1, Conds(<<bGT5>>, <<Composite(<<bGT5>>, <<>>)>>)), \* nested, b twice
      Rule("r2", 2, Conds(<<aGT5>>, <<>>)) }

\* the rules that fail a check of AddRule
BadRules ==
    { Rule("", 1, Conds(<<aGT5>>, <<>>)),                \* empty name
      Rule("", 1, Conds(<<aBad>>, <<>>)),                \* empty name, invalid operator
      Rule("r1", 1, Conds(<<aBad>>, <<>>)),              \* invalid operator
      Rule("r1", 1, NilConds),                           \* no conditions
      Rule("r2", 1, Conds(<<>>, <<aBad>>)) }

\* the rules handed to AddRule and UpdateRule
RulePool == GoodRules \cup BadRules

\* the input facts
FactPool ==
    { [f \in {"a"} |-> IntVal(7)],
      [f \in {"a", "b"} |-> IntVal(7)],
      [f \in {"a", "b"} |-> IF f = "a" THEN IntVal(7) ELSE StrVal(abc)] }

\* the orders in which `for factName := range inputFact` can visit the keys
Orders(fact) ==
    { o \in UNION {[1..k -> DOMAIN fact] : k \in {Cardinality(DOMAIN fact)}} :
        \A i, j \in DOMAIN o : i # j => o[i] # o[j] }

NoRule == Rule("", 0, Conds(<<>>, <<>>))

\* the record of a call: operation, arguments, returned error ("" is nil) and,
\* for Evaluate, the result; gone is `removed` when the call started; status
\* is the status code of the response to an HTTP request, 0 for the calls
\* made on the engine directly
Call(op, name, rule, err, fact, result, gone) ==
    [op |-> op, name |-> name, rule |-> rule, err |-> err,
     fact |-> fact, result |-> result, gone |-> gone, status |-> 0]

\* the first loop of Engine.Evaluate: the buckets of the fact names, in the
\* order in which the range over inputFact visits them
RECURSIVE Matching(_, _)
Matching(index, order) ==
    IF order = <<>> THEN <<>>
    ELSE (IF Head(order) \in DOMAIN index THEN index[Head(order)] ELSE <<>>)
         \o Matching(index, Tail(order))

\* Engine.Evaluate, for one order of the keys of inputFact
Evaluate(index, inputFact, order, reportFacts, reportRuleName) ==
    EvaluateLoop(Matching(index, order), inputFact, reportFacts, reportRuleName, NoResult)

\* the goroutines that call the engine
Goroutines == {1, 2}

\* sync.RWMutex, zero value
Unlocked == [writer |-> 0, readers |-> {}]

\* a goroutine outside every call.  Inside a call: op is the method, pc the
\* statement it is at, name, rule and fact the arguments, todo what a loop has
\* left, existingRules and matchingRules the local variables of those names,
\* locks the number of times the call took the lock, accesses the reads and
\* writes of e.Rules and e.RuleIndex made so far, each with the mode in which
\* the goroutine held the lock at that moment, seen the values that
\* e.RuleIndex had when the call started and when a call that changes the
\* index made its last write since, kept for the calls of Evaluate that are
\* watched and empty for the others
Idle ==
    [op |-> "", pc |-> "idle", name |-> "", rule |-> NoRule, fact |-> <<>>,
     todo |-> <<>>, existingRules |-> <<>>, matchingRules |-> <<>>,
     locks |-> 0, accesses |-> <<>>, seen |-> {}]

\* NewEngine()
Init ==
    /\ Rules = EmptyTable
    /\ RuleIndex = EmptyIndex
    /\ ReportFacts = FALSE
    /\ ReportRuleName = FALSE
    /\ UnmatchedFactBehavior = "Ignore"
    /\ last = Call("NewEngine", "", NoRule, "", <<>>, NoResult, {})
    /\ removed = {}
    /\ mu = Unlocked
    /\ running = [g \in Goroutines |-> Idle]

\* the buckets stay within the bound of the model
Bounded(index) == \A f \in DOMAIN index : Len(index[f]) <= MaxBucket

\* a call of e.AddRule(rule)
CallAddRule(rule) ==
    LET out == AddRule(Rules, RuleIndex, rule)
    IN  /\ Rules' = out.Rules
        /\ RuleIndex' = out.RuleIndex
        /\ last' = Call("AddRule", rule.Name, rule, out.err, <<>>, NoResult, removed)
        /\ removed' = IF out.err = "" THEN removed \ {rule.Name} ELSE removed
        /\ UNCHANGED <<flags, sync>>

\* a call of e.AddRule(rule) that keeps the index within the bound
DoAddRule(rule) ==
    /\ Bounded(AddRule(Rules, RuleIndex, rule).RuleIndex)
    /\ CallAddRule(rule)

\* a call of e.RemoveRule(ruleName)
DoRemoveRule(ruleName) ==
    LET out == RemoveRule(Rules, RuleIndex, ruleName)
    IN  /\ Rules' = out.Rules
        /\ RuleIndex' = out.RuleIndex
        /\ last' = Call("RemoveRule", ruleName, NoRule, out.err, <<>>, NoResult, removed)
        /\ removed' = IF out.err = "" THEN removed \cup {ruleName} ELSE removed
        /\ UNCHANGED <<flags, sync>>

\* a call of e.UpdateRule(ruleName, newRule)
DoUpdateRule(ruleName, newRule) ==
    LET out == UpdateRule(Rules, RuleIndex, ruleName, newRule)
    IN  /\ Bounded(out.RuleIndex)
        /\ Rules' = out.Rules
        /\ RuleIndex' = out.RuleIndex
        /\ last' = Call("UpdateRule", ruleName, newRule, out.err, <<>>, NoResult, removed)
        /\ UNCHANGED <<flags, removed, sync>>

\* a call of e.Evaluate(inputFact) whose range visits the keys in `order`
DoEvaluate(inputFact, order) ==
    LET result == Evaluate(RuleIndex, inputFact, order, ReportFacts, ReportRuleName)
    IN  /\ last' = Call("Evaluate", "", NoRule,
                        IF result.errors = <<>> THEN "" ELSE "multierror",
                        inputFact, result, removed)
        /\ UNCHANGED <<Rules, RuleIndex, flags, removed, sync>>

\* main: the options of the command line are stored in the engine right
\* after NewEngine(), before the first call
Configure(reportFacts, reportRuleName, behavior) ==
    /\ last.op = "NewEngine"
    /\ ReportFacts' = reportFacts
    /\ ReportRuleName' = reportRuleName
    /\ UnmatchedFactBehavior' = behavior
    /\ last' = Call("Configure", "", NoRule, "", <<>>, NoResult, removed)
    /\ UNCHANGED <<Rules, RuleIndex, removed, sync>>

\* An event read while another Evaluate call evaluates the same rule on the
\* fact `other`.  Both calls append to copies of one template, so the elements
\* that either appends in place are the same elements of the same backing
\* arrays, written by both without any lock: the reader finds its own or the
\* other call's.  theirs is the event the other evaluation builds; the model
\* takes the outcome in which the other call wrote last.
Overwritten(event, template, theirs) ==
    [event EXCEPT
        !.Facts  = [j \in 1..Len(@) |->
                        IF /\ j > Len(template.Facts)
                           /\ j <= Len(template.Facts) + event.shared
                           /\ j <= Len(template.Facts) + theirs.shared
                        THEN theirs.Facts[j] ELSE @[j]],
        !.Values = [j \in 1..Len(@) |->
                        IF /\ j > Len(template.Values)
                           /\ j <= Len(template.Values) + event.shared
                           /\ j <= Len(template.Values) + theirs.shared
                        THEN theirs.Values[j] ELSE @[j]]]

\* the result of an Evaluate call as its caller reads it when another call,
\* Evaluate(other), ran at the same time
RacingResult(result, index, other, reportFacts) ==
    [result EXCEPT
        !.events = [i \in 1..Len(@) |->
                        IF result.from[i] \in
                              UNION {{index[f][k] : k \in 1..Len(index[f])} :
                                        f \in DOMAIN other \cap DOMAIN index}
                        THEN Overwritten(@[i], result.from[i].Event,
                                 RuleEvaluate(result.from[i], other, reportFacts).Event)
                        ELSE @[i]]]

\* a call of e.Evaluate(inputFact) during which another goroutine runs
\* e.Evaluate(other); both only read the index
DoEvaluateRacing(inputFact, order, other) ==
    LET result == RacingResult(
                      Evaluate(RuleIndex, inputFact, order, ReportFacts, ReportRuleName),
                      RuleIndex, other, ReportFacts)
    IN  /\ last' = Call("Evaluate", "", NoRule,
                        IF result.errors = <<>> THEN "" ELSE "multierror",
                        inputFact, result, removed)
        /\ UNCHANGED <<Rules, RuleIndex, flags, removed, sync>>

\* the names handed to RemoveRule; "r3" is never added
RemoveNames == RuleNames \cup {"r3"}

\* calls are issued one at a time (every mutating call holds e.mu for its
\* whole access to the table and the index)
Next ==
    \/ \E rule \in RulePool : DoAddRule(rule)
    \/ \E ruleName \in RemoveNames : DoRemoveRule(ruleName)
    \/ \E ruleName \in RuleNames, newRule \in RulePool : DoUpdateRule(ruleName, newRule)
    \/ \E inputFact \in FactPool : \E order \in Orders(inputFact) :
            DoEvaluate(inputFact, order)

Spec == Init /\ [][Next]_vars

\* ---- the calls that change the rules, without Evaluate ----------------------

\* rules with and without an invalid operator, in either list
AdminPool ==
    { Rule("r1", 2, Conds(<<aGT5>>, <<>>)),
      Rule("r2", 1, Conds(<<bGT5>>, <<Composite(<<bGT5>>, <<>>)>>)),
      Rule("r1", 1, Conds(<<aBad>>, <<>>)),
      Rule("r2", 1, Conds(<<>>, <<aBad>>)),
      Rule("r2", 2, Conds(<<aGT5>>, <<Composite(<<aBad>>, <<>>)>>)) }

NextAdmin ==
    \/ \E rule \in AdminPool : DoAddRule(rule)
    \/ \E ruleName \in RuleNames : DoRemoveRule(ruleName)
    \/ \E ruleName \in RuleNames, newRule \in AdminPool : DoUpdateRule(ruleName, newRule)

SpecAdmin == Init /\ [][NextAdmin]_vars

\* ---- AddRule of rules that fail any number of its checks --------------------

\* every combination of an empty or a stored name with conditions that are
\* valid, have an invalid operator, are nil, or are two empty lists
AdmitPool ==
    { Rule(n, 1, c) : n \in {"", "r1", "r2"},
                      c \in { Conds(<<aGT5>>, <<>>), Conds(<<aBad>>, <<>>),
                              NilConds, Conds(<<>>, <<>>) } }

NextAdmit ==
    \/ \E rule \in AdmitPool : DoAddRule(rule)
    \/ \E ruleName \in RuleNames : DoRemoveRule(ruleName)

SpecAdmit == Init /\ [][NextAdmit]_vars

\* ---- the engine with the rules that pass every check of AddRule ------------

NextValid ==
    \/ \E rule \in GoodRules : DoAddRule(rule)
    \/ \E ruleName \in RuleNames : DoRemoveRule(ruleName)
    \/ \E ruleName \in RuleNames, newRule \in GoodRules : DoUpdateRule(ruleName, newRule)
    \/ \E inputFact \in FactPool : \E order \in Orders(inputFact) :
            DoEvaluate(inputFact, order)

SpecValid == Init /\ [][NextValid]_vars

(***************************************************************************)
(* Rule evaluation: an engine that holds one rule, drawn from a larger     *)
(* set of condition trees, evaluated against a larger set of facts         *)
(***************************************************************************)
\* bound: the longest `all` list of a rule
MaxAll == 2

bSTR == Leaf("b", "greaterThan", StrVal(abc))

\* the conditions of the `all` lists
AllPool ==
    { aGT5, aLT9, bGT5,
      Composite(<<aGT5, bGT5>>, <<>>),
      Composite(<<bGT5>>, <<aLT9>>) }

AllLists == UNION {[1..k -> AllPool] : k \in 0..MaxAll}

\* the `any` lists
AnyLists ==
    { <<>>,
      <<aGT5>>,
      <<bGT5, aLT9>>,
      <<Composite(<<aGT5, bGT5>>, <<>>)>>,
      <<Composite(<<>>, <<bGT5, aGT5>>), aLT9>>,
      <<Composite(<<aBad>>, <<>>), aGT5>>,
      <<bSTR>> }

EvalRules ==
    { Rule("r1", 1, Conds(all, any)) : all \in AllLists, any \in AnyLists }

EvalFacts ==
    LET as == {IntVal(3), IntVal(7), IntVal(12)}
        bs == {IntVal(3), IntVal(7), StrVal(abc)}
    IN  { [f \in {"a"} |-> x] : x \in as }
        \cup { [f \in {"b"} |-> y] : y \in bs }
        \cup UNION { { [f \in {"a", "b"} |-> IF f = "a" THEN x ELSE y] : y \in bs } : x \in as }

\* the first call on a new engine: e.AddRule(rule)
AddFirstRule(rule) ==
    /\ Rules = EmptyTable
    /\ RuleIndex = EmptyIndex
    /\ CallAddRule(rule)

NextRule ==
    \/ \E rule \in EvalRules : AddFirstRule(rule)
    \/ \E inputFact \in EvalFacts : \E order \in Orders(inputFact) :
            DoEvaluate(inputFact, order)

SpecRule == Init /\ [][NextRule]_vars

(***************************************************************************)
(* Leaf evaluation: an engine that holds one rule of one leaf, directly in *)
(* its `all` list or nested in its `any` list, evaluated against facts of  *)
(* every kind of value                                                     *)
(***************************************************************************)
\* the literals of the leaves
LeafLiterals ==
    { IntVal(5), FloatVal(5000, 11), StrVal(<<"5">>), StrVal(abc),
      BoolVal(TRUE), StrsVal(<<abc>>) }

\* the values of the fact "b"
LeafValues ==
    { IntVal(7), FloatVal(5000, 5), StrVal(<<"7">>), StrVal(abc),
      BoolVal(TRUE), StrsVal(<<abc>>) }

LeafRules ==
    { Rule("r1", 1, Conds(<<Leaf("b", op, v)>>, <<>>)) :
          op \in validOperators, v \in LeafLiterals }
    \cup
    { Rule("r1", 1, Conds(<<>>, <<Composite(<<Leaf("b", op, v)>>, <<>>)>>)) :
          op \in validOperators, v \in LeafLiterals }

LeafFacts == { [f \in {"b"} |-> w] : w \in LeafValues }

NextLeaf ==
    \/ \E rule \in LeafRules : AddFirstRule(rule)
    \/ \E inputFact \in LeafFacts : \E order \in Orders(inputFact) :
            DoEvaluate(inputFact, order)

SpecLeaf == Init /\ [][NextLeaf]_vars

\* ---- numbers around a literal, for the order comparisons --------------------

\* the literals: 30, 30.000000001 (ten ticks above 30) and "30"
NumLiterals == { IntVal(30), FloatVal(30000, 10), StrVal(<<"3", "0">>) }

\* the values of the fact "b": 30 and the numbers 1, 9, 10, 11, 20, 21 ticks
\* of 1e-10 above it, and 29 and 31
NumValues ==
    { FloatVal(30000, tt) : tt \in {0, 1, 9, 10, 11, 20, 21} }
    \cup { IntVal(29), IntVal(31) }

NumRules ==
    { Rule("r1", 1, Conds(<<Leaf("b", op, v)>>, <<>>)) :
          op \in {"greaterThan", "greaterThanOrEqual", "lessThan", "lessThanOrEqual"},
          v \in NumLiterals }

NumFacts == { [f \in {"b"} |-> w] : w \in NumValues }

NextNum ==
    \/ \E rule \in NumRules : AddFirstRule(rule)
    \/ \E inputFact \in NumFacts : \E order \in Orders(inputFact) :
            DoEvaluate(inputFact, order)

SpecNum == Init /\ [][NextNum]_vars

\* ---- strings and sequences of strings, for contains and notContains --------

run == <<"r", "u", "n">>
swim == <<"s", "w", "i", "m">>
cycle == <<"c", "y", "c", "l", "e">>

\* the literals: three strings, one of them a part of another
StrLiterals == { StrVal(swim), StrVal(<<"w", "i">>), StrVal(cycle) }

\* the values of the fact "b": strings, sequences of strings, and values of
\* other types
StrValues ==
    { StrVal(swim), StrVal(run), StrVal(<<>>),
      StrsVal(<<run, swim>>), StrsVal(<<run>>), StrsVal(<<>>),
      IntVal(7), BoolVal(TRUE) }

StrRules ==
    { Rule("r1", 1, Conds(<<Leaf("b", op, v)>>, <<>>)) :
          op \in {"contains", "notContains"}, v \in StrLiterals }
    \cup
    { Rule("r1", 1, Conds(<<>>, <<Composite(<<Leaf("b", op, v)>>, <<>>)>>)) :
          op \in {"contains", "notContains"}, v \in StrLiterals }

StrFacts == { [f \in {"b"} |-> w] : w \in StrValues }

NextStr ==
    \/ \E rule \in StrRules : AddFirstRule(rule)
    \/ \E inputFact \in StrFacts : \E order \in Orders(inputFact) :
            DoEvaluate(inputFact, order)

SpecStr == Init /\ [][NextStr]_vars

\* ---- the engine under every setting of its options -------------------------

\* event templates: one whose Facts and Values have room for one more element
\* (make([]string, 0, 1)), one that already carries facts, values and a name
spare == [Event("alert") EXCEPT !.free = 1]
seeded ==
    [Event("alert") EXCEPT !.Facts = <<"seed">>, !.Values = <<IntVal(0)>>,
                           !.RuleName = "tmpl"]

RuleWith(n, p, c, event) == [Name |-> n, Priority |-> p, Conditions |-> c, Event |-> event]

FlagRules ==
    { Rule("r1", 1, Conds(<<aGT5>>, <<>>)),
      RuleWith("r1", 2, Conds(<<>>, <<aGT5, bGT5>>), spare),
      RuleWith("r2", 1, Conds(<<bGT5>>, <<aGT5>>), seeded) }

FlagFacts ==
    { [f \in {"a"} |-> IntVal(7)],
      [f \in {"b"} |-> IntVal(12)],
      [f \in {"a", "b"} |-> IF f = "a" THEN IntVal(7) ELSE IntVal(12)] }

\* the values of the -unmatchedFactBehavior option that the claims speak of
Behaviors == {"Ignore", "Error"}

NextFlags ==
    \/ \E reportFacts \in BOOLEAN : \E reportRuleName \in BOOLEAN :
          \E behavior \in Behaviors : Configure(reportFacts, reportRuleName, behavior)
    \/ \E rule \in FlagRules : DoAddRule(rule)
    \/ \E name \in RuleNames : DoRemoveRule(name)
    \/ \E name \in RuleNames : \E rule \in FlagRules : DoUpdateRule(name, rule)
    \/ \E inputFact \in FlagFacts : \E order \in Orders(inputFact) :
          DoEvaluate(inputFact, order)
    \/ \E inputFact \in FlagFacts : \E order \in Orders(inputFact) :
          \E other \in FlagFacts : DoEvaluateRacing(inputFact, order, other)

SpecFlags == Init /\ [][NextFlags]_vars

\* ---- the calls of the engine, statement by statement, from two goroutines --

\* the mode in which goroutine g holds e.mu
Held(g) ==
    IF mu.writer = g THEN "write" ELSE IF g \in mu.readers THEN "read" ELSE "none"

\* a read or a write of e.Rules or e.RuleIndex by goroutine g
Access(g, obj, kind) ==
    [obj |-> obj, kind |-> kind, mode |-> Held(g), locks |-> running[g].locks]

\* e.mu.Lock() returns when there is neither a writer nor a reader
CanLock == mu.writer = 0 /\ mu.readers = {}

\* the fact names under which processConditions inserts the rule, in order
RECURSIVE Insertions(_)
Insertions(conditions) ==
    IF conditions = <<>> THEN <<>>
    ELSE <<Head(conditions).Fact>>
         \o (IF Len(Head(conditions).All) > 0 THEN Insertions(Head(conditions).All) ELSE <<>>)
         \o (IF Len(Head(conditions).Any) > 0 THEN Insertions(Head(conditions).Any) ELSE <<>>)
         \o Insertions(Tail(conditions))

\* the calls that are about to insert into the index
Inserting == {g \in Goroutines : running[g].op \in {"AddRule", "UpdateRule"} /\ running[g].pc # "idle"}

\* a further inserting call keeps the buckets within the bound of the model
RoomInIndex ==
    \A f \in DOMAIN RuleIndex : Len(RuleIndex[f]) + Cardinality(Inserting) < MaxBucket

\* the call of goroutine g wrote e.RuleIndex, which is now `index`: if that was
\* its last write of the index, the watched calls of Evaluate that are running
\* have seen the index as the call leaves it
Witnessed(calls, g, index) ==
    IF calls[g].todo # <<>> THEN calls
    ELSE [h \in DOMAIN calls |->
             IF calls[h].seen # {}
             THEN [calls[h] EXCEPT !.seen = @ \cup {index}]
             ELSE calls[h]]

\* the goroutine returns from its call
Return(r) ==
    [Idle EXCEPT !.op = r.op, !.name = r.name, !.locks = r.locks, !.accesses = r.accesses]

\* AddRule: validateRule(rule) passed; it reads nothing of the engine
StartAddRule(g, rule) ==
    /\ running[g].pc = "idle"
    /\ RoomInIndex
    /\ rule.Name # ""
    /\ ~(rule.Conditions.allNil /\ rule.Conditions.anyNil)
    /\ Validate(rule) = ""
    /\ running' = [running EXCEPT ![g] =
            [Idle EXCEPT !.op = "AddRule", !.pc = "ruleExists",
                         !.name = rule.Name, !.rule = rule]]
    /\ UNCHANGED <<Rules, RuleIndex, flags, last, removed, mu>>

\* AddRule: e.ruleExists(rule.Name) reads e.Rules; no lock is taken
RuleExists(g) ==
    /\ running[g].pc = "ruleExists"
    /\ running' = [running EXCEPT ![g] =
            IF @.name \in DOMAIN Rules
            THEN Return([@ EXCEPT !.accesses = Append(@, Access(g, "Rules", "read"))])
            ELSE [@ EXCEPT !.pc = "addRuleToEngine",
                           !.accesses = Append(@, Access(g, "Rules", "read"))]]
    /\ UNCHANGED <<Rules, RuleIndex, flags, last, removed, mu>>

\* addRuleToEngine: e.mu.Lock()
AddRuleToEngineLock(g) ==
    /\ running[g].pc = "addRuleToEngine"
    /\ CanLock
    /\ mu' = [mu EXCEPT !.writer = g]
    /\ running' = [running EXCEPT ![g] = [@ EXCEPT !.pc = "store", !.locks = @ + 1]]
    /\ UNCHANGED <<Rules, RuleIndex, flags, last, removed>>

\* addRuleToEngine: e.Rules[rule.Name] = rule, and the deferred Unlock
AddRuleToEngineStore(g) ==
    /\ running[g].pc = "store"
    /\ Rules' = Put(Rules, running[g].name, running[g].rule)
    /\ removed' = removed \ {running[g].name}
    /\ mu' = [mu EXCEPT !.writer = 0]
    /\ running' = [running EXCEPT ![g] =
            [@ EXCEPT !.pc = "addToIndex",
                      !.todo = Insertions(running[g].rule.Conditions.All) \o
                               Insertions(running[g].rule.Conditions.Any),
                      !.accesses = Append(@, Access(g, "Rules", "write"))]]
    /\ UNCHANGED <<RuleIndex, flags, last>>

\* addToIndex with nothing left to insert: AddRule returns; UpdateRule
\* returns and its deferred Unlock runs
AddToIndexDone(g) ==
    /\ running[g].pc = "addToIndex"
    /\ running[g].todo = <<>>
    /\ mu' = IF running[g].op = "UpdateRule" THEN [mu EXCEPT !.writer = 0] ELSE mu
    /\ running' = [running EXCEPT ![g] = Return(@)]
    /\ UNCHANGED <<Rules, RuleIndex, flags, last, removed>>

\* insertRuleIntoIndex: existingRules := e.RuleIndex[fact]
InsertRuleRead(g) ==
    /\ running[g].pc = "addToIndex"
    /\ running[g].todo # <<>>
    /\ running' = [running EXCEPT ![g] =
            [@ EXCEPT !.pc = "insert",
                      !.existingRules = RuleIndex[Head(running[g].todo)],
                      !.accesses = Append(@, Access(g, "RuleIndex", "read"))]]
    /\ UNCHANGED <<Rules, RuleIndex, flags, last, removed, mu>>

\* insertRuleIntoIndex: the rule goes into existingRules as it was read, and
\* e.RuleIndex[fact] = existingRules
InsertRuleWrite(g) ==
    /\ running[g].pc = "insert"
    /\ RuleIndex' = insertRuleIntoIndex(
                        [RuleIndex EXCEPT ![Head(running[g].todo)] = running[g].existingRules],
                        Head(running[g].todo), running[g].rule)
    /\ running' = Witnessed([running EXCEPT ![g] =
            [@ EXCEPT !.pc = "addToIndex", !.todo = Tail(@), !.existingRules = <<>>,
                      !.accesses = Append(@, Access(g, "RuleIndex", "write"))]],
                            g, RuleIndex')
    /\ UNCHANGED <<Rules, flags, last, removed, mu>>

StartRemoveRule(g, ruleName) ==
    /\ running[g].pc = "idle"
    /\ running' = [running EXCEPT ![g] =
            [Idle EXCEPT !.op = "RemoveRule", !.pc = "removeLock", !.name = ruleName]]
    /\ UNCHANGED <<Rules, RuleIndex, flags, last, removed, mu>>

\* RemoveRule: e.mu.Lock()
RemoveRuleLock(g) ==
    /\ running[g].pc = "removeLock"
    /\ CanLock
    /\ mu' = [mu EXCEPT !.writer = g]
    /\ running' = [running EXCEPT ![g] = [@ EXCEPT !.pc = "delete", !.locks = @ + 1]]
    /\ UNCHANGED <<Rules, RuleIndex, flags, last, removed>>

\* RemoveRule: the existence check, then delete(e.Rules, ruleName); a name
\* that is not there returns the error and unlocks
RemoveRuleDelete(g) ==
    /\ running[g].pc = "delete"
    /\ IF running[g].name \in DOMAIN Rules
       THEN /\ Rules' = Delete(Rules, running[g].name)
            /\ removed' = removed \cup {running[g].name}
            /\ mu' = mu
            /\ running' = [running EXCEPT ![g] =
                    [@ EXCEPT !.pc = "removeFromIndex",
                              !.accesses = @ \o <<Access(g, "Rules", "read"),
                                                  Access(g, "Rules", "write")>>]]
       ELSE /\ mu' = [mu EXCEPT !.writer = 0]
            /\ running' = [running EXCEPT ![g] =
                    Return([@ EXCEPT !.accesses = Append(@, Access(g, "Rules", "read"))])]
            /\ UNCHANGED <<Rules, removed>>
    /\ UNCHANGED <<RuleIndex, flags, last>>

\* RemoveRule: e.removeFromIndex(ruleName), and the deferred Unlock
RemoveRuleIndex(g) ==
    /\ running[g].pc = "removeFromIndex"
    /\ RuleIndex' = removeFromIndex(RuleIndex, running[g].name)
    /\ mu' = [mu EXCEPT !.writer = 0]
    /\ running' = Witnessed([running EXCEPT ![g] =
            Return([@ EXCEPT !.accesses = @ \o <<Access(g, "RuleIndex", "read"),
                                                 Access(g, "RuleIndex", "write")>>])],
                            g, RuleIndex')
    /\ UNCHANGED <<Rules, flags, last, removed>>

StartUpdateRule(g, ruleName, newRule) ==
    /\ running[g].pc = "idle"
    /\ RoomInIndex
    /\ running' = [running EXCEPT ![g] =
            [Idle EXCEPT !.op = "UpdateRule", !.pc = "updateLock",
                         !.name = ruleName, !.rule = newRule]]
    /\ UNCHANGED <<Rules, RuleIndex, flags, last, removed, mu>>

\* UpdateRule: e.mu.Lock()
UpdateRuleLock(g) ==
    /\ running[g].pc = "updateLock"
    /\ CanLock
    /\ mu' = [mu EXCEPT !.writer = g]
    /\ running' = [running EXCEPT ![g] = [@ EXCEPT !.pc = "update", !.locks = @ + 1]]
    /\ UNCHANGED <<Rules, RuleIndex, flags, last, removed>>

\* UpdateRule: Validate, the existence check, removeFromIndex and
\* e.Rules[ruleName] = newRule; an error returns and unlocks
UpdateRuleStore(g) ==
    /\ running[g].pc = "update"
    /\ IF Validate(running[g].rule) # ""
       THEN /\ mu' = [mu EXCEPT !.writer = 0]
            /\ running' = [running EXCEPT ![g] = Return(@)]
            /\ UNCHANGED <<Rules, RuleIndex>>
       ELSE IF running[g].name \notin DOMAIN Rules
       THEN /\ mu' = [mu EXCEPT !.writer = 0]
            /\ running' = [running EXCEPT ![g] =
                    Return([@ EXCEPT !.accesses = Append(@, Access(g, "Rules", "read"))])]
            /\ UNCHANGED <<Rules, RuleIndex>>
       ELSE /\ RuleIndex' = removeFromIndex(RuleIndex, running[g].name)
            /\ Rules' = Put(Rules, running[g].name, running[g].rule)
            /\ mu' = mu
            /\ running' = Witnessed([running EXCEPT ![g] =
                    [@ EXCEPT !.pc = "addToIndex",
                              !.todo = Insertions(running[g].rule.Conditions.All) \o
                                       Insertions(running[g].rule.Conditions.Any),
                              !.accesses = @ \o <<Access(g, "Rules", "read"),
                                                  Access(g, "RuleIndex", "read"),
                                                  Access(g, "RuleIndex", "write"),
                                                  Access(g, "Rules", "write")>>]],
                                    g, RuleIndex')
    /\ UNCHANGED <<flags, last, removed>>

\* Evaluate: the range over inputFact will visit the keys in `order`
StartEvaluate(g, inputFact, order) ==
    /\ running[g].pc = "idle"
    /\ running' = [running EXCEPT ![g] =
            [Idle EXCEPT !.op = "Evaluate", !.pc = "RLock",
                         !.fact = inputFact, !.todo = order]]
    /\ UNCHANGED <<Rules, RuleIndex, flags, last, removed, mu>>

\* the same call, watched: the index it starts on is the first that it sees
StartEvaluateWatched(g, inputFact, order) ==
    /\ running[g].pc = "idle"
    /\ running' = [running EXCEPT ![g] =
            [Idle EXCEPT !.op = "Evaluate", !.pc = "RLock",
                         !.fact = inputFact, !.todo = order, !.seen = {RuleIndex}]]
    /\ UNCHANGED <<Rules, RuleIndex, flags, last, removed, mu>>

\* Evaluate: e.mu.RLock() returns when there is no writer
EvaluateRLock(g) ==
    /\ running[g].pc = "RLock"
    /\ mu.writer = 0
    /\ mu' = [mu EXCEPT !.readers = @ \cup {g}]
    /\ running' = [running EXCEPT ![g] = [@ EXCEPT !.pc = "bucket", !.locks = @ + 1]]
    /\ UNCHANGED <<Rules, RuleIndex, flags, last, removed>>

\* Evaluate: matchingRules = append(matchingRules, e.RuleIndex[factName]...),
\* and e.mu.RUnlock()
EvaluateBucket(g) ==
    /\ running[g].pc = "bucket"
    /\ mu' = [mu EXCEPT !.readers = @ \ {g}]
    /\ running' = [running EXCEPT ![g] =
            [@ EXCEPT !.pc = IF Tail(running[g].todo) = <<>> THEN "rules" ELSE "RLock",
                      !.todo = Tail(@),
                      !.matchingRules = @ \o (IF Head(running[g].todo) \in DOMAIN RuleIndex
                                              THEN RuleIndex[Head(running[g].todo)]
                                              ELSE <<>>),
                      !.accesses = Append(@, Access(g, "RuleIndex", "read"))]]
    /\ UNCHANGED <<Rules, RuleIndex, flags, last, removed>>

\* the result of the loop of Evaluate over matchingRules
Evaluated(result, inputFact) ==
    Call("Evaluate", "", NoRule, IF result.errors = <<>> THEN "" ELSE "multierror",
         inputFact, result, removed)

\* Evaluate: the loop over matchingRules, which reads neither e.Rules nor
\* e.RuleIndex, and the return
EvaluateRules(g) ==
    /\ running[g].pc = "rules"
    /\ last' = Evaluated(EvaluateLoop(running[g].matchingRules, running[g].fact,
                                      ReportFacts, ReportRuleName, NoResult),
                         running[g].fact)
    /\ running' = [running EXCEPT ![g] = Return(@)]
    /\ UNCHANGED <<Rules, RuleIndex, flags, removed, mu>>

LockRules ==
    { Rule("r1", 1, Conds(<<aGT5>>, <<>>)),
      Rule("r1", 2, Conds(<<>>, <<aGT5, bGT5>>)) }

LockFacts == { [f \in {"a", "b"} |-> IF f = "a" THEN IntVal(7) ELSE IntVal(12)] }

NextLock ==
    \E g \in Goroutines :
        \/ \E rule \in LockRules : StartAddRule(g, rule)
        \/ RuleExists(g)
        \/ AddRuleToEngineLock(g)
        \/ AddRuleToEngineStore(g)
        \/ AddToIndexDone(g)
        \/ InsertRuleRead(g)
        \/ InsertRuleWrite(g)
        \/ StartRemoveRule(g, "r1")
        \/ RemoveRuleLock(g)
        \/ RemoveRuleDelete(g)
        \/ RemoveRuleIndex(g)
        \/ \E newRule \in LockRules : StartUpdateRule(g, "r1", newRule)
        \/ UpdateRuleLock(g)
        \/ UpdateRuleStore(g)
        \/ \E inputFact \in LockFacts : \E order \in Orders(inputFact) :
              StartEvaluate(g, inputFact, order)
        \/ EvaluateRLock(g)
        \/ EvaluateBucket(g)
        \/ EvaluateRules(g)

SpecLock == Init /\ [][NextLock]_vars

\* ---- one goroutine changing the rule r1 while the other evaluates ---------

\* two versions of the rule r1, each with one leaf, on different facts
SnapRules ==
    { Rule("r1", 1, Conds(<<aGT5>>, <<>>)),
      Rule("r1", 1, Conds(<<bGT5>>, <<>>)) }

\* goroutine 1 calls AddRule, RemoveRule and UpdateRule, goroutine 2 Evaluate
NextSnap ==
    \/ \E rule \in SnapRules : StartAddRule(1, rule)
    \/ RuleExists(1)
    \/ AddRuleToEngineLock(1)
    \/ AddRuleToEngineStore(1)
    \/ AddToIndexDone(1)
    \/ InsertRuleRead(1)
    \/ InsertRuleWrite(1)
    \/ StartRemoveRule(1, "r1")
    \/ RemoveRuleLock(1)
    \/ RemoveRuleDelete(1)
    \/ RemoveRuleIndex(1)
    \/ \E newRule \in SnapRules : StartUpdateRule(1, "r1", newRule)
    \/ UpdateRuleLock(1)
    \/ UpdateRuleStore(1)
    \/ \E inputFact \in LockFacts : \E order \in Orders(inputFact) :
          StartEvaluateWatched(2, inputFact, order)
    \/ EvaluateRLock(2)
    \/ EvaluateBucket(2)
    \/ EvaluateRules(2)

SpecSnap == Init /\ [][NextSnap]_vars

\* ---- the calls under fair scheduling ---------------------------------------

\* the reads and writes of the maps e.Rules and e.RuleIndex that the next
\* statement of goroutine g makes
Poised(g) ==
    LET on(obj, kinds) == {[obj |-> obj, kind |-> k] : k \in kinds}
        pc == running[g].pc
    IN  IF pc = "ruleExists" THEN on("Rules", {"read"})
        ELSE IF pc = "store" THEN on("Rules", {"write"})
        ELSE IF pc = "addToIndex" /\ running[g].todo # <<>> THEN on("RuleIndex", {"read"})
        ELSE IF pc = "insert" THEN on("RuleIndex", {"write"})
        ELSE IF pc = "delete"
             THEN IF running[g].name \in DOMAIN Rules
                  THEN on("Rules", {"read", "write"}) ELSE on("Rules", {"read"})
        ELSE IF pc = "removeFromIndex" THEN on("RuleIndex", {"read", "write"})
        ELSE IF pc = "update"
             THEN IF Validate(running[g].rule) # "" THEN {}
                  ELSE IF running[g].name \in DOMAIN Rules
                  THEN on("Rules", {"read", "write"}) \cup on("RuleIndex", {"read", "write"})
                  ELSE on("Rules", {"read"})
        ELSE IF pc = "bucket" THEN on("RuleIndex", {"read"})
        ELSE {}

\* the next statements of g and h access one map, one of them writing: no
\* lock keeps them apart, since both are ready to run
MapRace(g, h) ==
    \E x \in Poised(g), y \in Poised(h) :
        x.obj = y.obj /\ (x.kind = "write" \/ y.kind = "write")

\* the two accesses overlap and the runtime detects it: "fatal error:
\* concurrent map writes" (or "concurrent map read and map write") ends the
\* process, and no call of any goroutine returns
Fatal ==
    /\ \E g, h \in Goroutines : g # h /\ MapRace(g, h)
    /\ running' = [k \in Goroutines |-> [running[k] EXCEPT !.pc = "fatal"]]
    /\ UNCHANGED <<Rules, RuleIndex, flags, last, removed, mu>>

\* the statements of a call of goroutine g after its start
Step(g) ==
    \/ RuleExists(g)
    \/ AddRuleToEngineLock(g)
    \/ AddRuleToEngineStore(g)
    \/ AddToIndexDone(g)
    \/ InsertRuleRead(g)
    \/ InsertRuleWrite(g)
    \/ RemoveRuleLock(g)
    \/ RemoveRuleDelete(g)
    \/ RemoveRuleIndex(g)
    \/ UpdateRuleLock(g)
    \/ UpdateRuleStore(g)
    \/ EvaluateRLock(g)
    \/ EvaluateBucket(g)
    \/ EvaluateRules(g)

LiveRules == { Rule("r1", 1, Conds(<<aGT5>>, <<>>)) }

LiveFacts == { [f \in {"a"} |-> IntVal(7)] }

\* the start of a call by goroutine g
Start(g) ==
    \/ \E rule \in LiveRules : StartAddRule(g, rule)
    \/ StartRemoveRule(g, "r1")
    \/ \E newRule \in LiveRules : StartUpdateRule(g, "r1", newRule)
    \/ \E inputFact \in LiveFacts : \E order \in Orders(inputFact) :
          StartEvaluate(g, inputFact, order)

NextLive ==
    \/ \E g \in Goroutines : Start(g)
    \/ \E g \in Goroutines : Step(g)
    \/ Fatal

\* a goroutine that can run does run, and a goroutine that waits for the lock
\* gets it: a waiting Lock keeps later RLock calls out
Fairness == \A g \in Goroutines : SF_vars(Step(g))

SpecLive == Init /\ [][NextLive]_vars /\ Fairness

\* ---- the HTTP handler ------------------------------------------------------

DefaultPriority == 99

StatusOK == 200
StatusCreated == 201
StatusBadRequest == 400

\* the body of a request: JSON that json.Decoder.Decode turns into `rule`,
\* or bytes that it fails on
Body(rule) == [ok |-> TRUE, rule |-> rule]

Undecodable == [ok |-> FALSE, rule |-> NoRule]

\* the rule with the default priority if the body gave none
WithDefaultPriority(rule) ==
    IF rule.Priority = 0 THEN [rule EXCEPT !.Priority = DefaultPriority] ELSE rule

\* the check of the required fields in Handler.AddRule
MissingFields(rule) ==
    \/ rule.Name = ""
    \/ Len(rule.Conditions.All) = 0 /\ Len(rule.Conditions.Any) = 0
    \/ rule.Event.EventType = ""

\* the response: the call record of the handler with its status code
Response(call, status) == [call EXCEPT !.status = status]

\* Handler.AddRule: decode, default priority, required fields, then
\* h.engine.AddRule(rule), whose error is dropped, and 201
HandlerAddRule(body) ==
    IF ~body.ok
    THEN /\ last' = Response(Call("Handler.AddRule", "", NoRule, "", <<>>, NoResult, removed),
                             StatusBadRequest)
         /\ UNCHANGED <<Rules, RuleIndex, flags, removed, sync>>
    ELSE IF MissingFields(WithDefaultPriority(body.rule))
    THEN /\ last' = Response(Call("Handler.AddRule", body.rule.Name,
                                  WithDefaultPriority(body.rule), "", <<>>, NoResult, removed),
                             StatusBadRequest)
         /\ UNCHANGED <<Rules, RuleIndex, flags, removed, sync>>
    ELSE LET rule == WithDefaultPriority(body.rule)
             out  == AddRule(Rules, RuleIndex, rule)
         IN  /\ Bounded(out.RuleIndex)
             /\ Rules' = out.Rules
             /\ RuleIndex' = out.RuleIndex
             /\ last' = Response(Call("Handler.AddRule", rule.Name, rule, out.err,
                                      <<>>, NoResult, removed),
                                 StatusCreated)
             /\ removed' = IF out.err = "" THEN removed \ {rule.Name} ELSE removed
             /\ UNCHANGED <<flags, sync>>

\* Handler.RemoveRule: the name of the query, then h.engine.RemoveRule(ruleName),
\* whose error is dropped, and 200
HandlerRemoveRule(ruleName) ==
    IF ruleName = ""
    THEN /\ last' = Response(Call("Handler.RemoveRule", "", NoRule, "", <<>>, NoResult, removed),
                             StatusBadRequest)
         /\ UNCHANGED <<Rules, RuleIndex, flags, removed, sync>>
    ELSE LET out == RemoveRule(Rules, RuleIndex, ruleName)
         IN  /\ Rules' = out.Rules
             /\ RuleIndex' = out.RuleIndex
             /\ last' = Response(Call("Handler.RemoveRule", ruleName, NoRule, out.err,
                                      <<>>, NoResult, removed),
                                 StatusOK)
             /\ removed' = IF out.err = "" THEN removed \cup {ruleName} ELSE removed
             /\ UNCHANGED <<flags, sync>>

\* the rules of the request bodies: with and without a name, a priority, an
\* event type; conditions that are valid, have an invalid operator, are two
\* empty lists, or are absent
HttpRules ==
    { RuleWith(n, p, c, Event(et)) :
          n \in {"", "r1", "r2"}, p \in {0, 1}, et \in {"", "alert"},
          c \in { Conds(<<aGT5>>, <<>>), Conds(<<>>, <<aBad>>),
                  Conds(<<>>, <<>>), NilConds } }

NextHttp ==
    \/ \E rule \in HttpRules : HandlerAddRule(Body(rule))
    \/ HandlerAddRule(Undecodable)
    \/ \E ruleName \in {"", "r1", "r2"} : HandlerRemoveRule(ruleName)

SpecHttp == Init /\ [][NextHttp]_vars

(***************************************************************************)
(* Properties                                                              *)
(***************************************************************************)
\* some bucket of the index holds an entry of that rule name
Indexed(index, name) ==
    \E f \in DOMAIN index : \E i \in 1..Len(index[f]) : index[f][i].Name = name

\* the number of entries of bucket that are the rule r
Count(bucket, r) == Cardinality({i \in 1..Len(bucket) : bucket[i] = r})

\* the index built from scratch by addToIndex over the rules of the table
RECURSIVE RebuildFrom(_, _)
RebuildFrom(rules, keys) ==
    IF keys = {} THEN EmptyIndex
    ELSE LET k == CHOOSE x \in keys : TRUE
         IN  addToIndex(RebuildFrom(rules, keys \ {k}), rules[k])

Rebuild(rules) == RebuildFrom(rules, DOMAIN rules)

\* no element occurs twice in the sequence
NoRepeat(seq) == \A i, j \in 1..Len(seq) : i # j => seq[i] # seq[j]

\* a condition is satisfied by a fact: a leaf by its comparison, a nested
\* condition when all of its `all` and, if it has any, one of its `any` are
RECURSIVE Satisfied(_, _)
Satisfied(c, fact) ==
    IF Len(c.All) > 0 \/ Len(c.Any) > 0
    THEN /\ \A i \in 1..Len(c.All) : Satisfied(c.All[i], fact)
         /\ Len(c.Any) > 0 => \E i \in 1..Len(c.Any) : Satisfied(c.Any[i], fact)
    ELSE evaluateSimpleCondition(c, fact).sat

AllSatisfied(conditions, fact) ==
    \A i \in 1..Len(conditions) : Satisfied(conditions[i], fact)

SomeSatisfied(conditions, fact) ==
    \E i \in 1..Len(conditions) : Satisfied(conditions[i], fact)

\* the rule passes the checks of AddRule that come before the duplicate check
Admissible(rule) ==
    /\ rule.Name # ""
    /\ Validate(rule) = ""
    /\ ~(rule.Conditions.allNil /\ rule.Conditions.anyNil)

\* the table holds a rule of that name
HasRuleNamed(rules, name) == \E k \in DOMAIN rules : rules[k].Name = name

Mutating == {"AddRule", "RemoveRule", "UpdateRule"}

\* C1: after a successful RemoveRule(name) no bucket of the index holds an
\* entry of that rule, and an Evaluate that starts then gives no event from it.
C1_RemovedRuleLeavesNoTrace ==
    (last.op = "RemoveRule" /\ last.err = "") =>
        /\ ~Indexed(RuleIndex, last.name)
        /\ \A inputFact \in FactPool : \A order \in Orders(inputFact) :
              LET result == Evaluate(RuleIndex, inputFact, order, ReportFacts, ReportRuleName)
              IN  \A i \in 1..Len(result.from) : result.from[i].Name # last.name

\* C2: in every reachable state each bucket of the index holds exactly the
\* entries that a rebuild from the rule table gives (as many times each).
C2_IndexEqualsRebuild ==
    LET fresh == Rebuild(Rules)
    IN  \A f \in IndexKeys :
            /\ Len(RuleIndex[f]) = Len(fresh[f])
            /\ \A i \in 1..Len(RuleIndex[f]) :
                  Count(RuleIndex[f], RuleIndex[f][i]) = Count(fresh[f], RuleIndex[f][i])

\* C3: AddRule of a rule whose name is empty returns an error and leaves the
\* rule table and every bucket of the index as they were.
C3_EmptyNameRejected ==
    [][(last'.op = "AddRule" /\ last'.rule.Name = "") =>
            /\ last'.err = "EmptyRuleNameError"
            /\ Rules' = Rules
            /\ RuleIndex' = RuleIndex]_vars

C3_Witness ==
    /\ last.op = "AddRule"
    /\ last.rule.Name = ""
    /\ last.err = "EmptyRuleNameError"
    /\ Rules # EmptyTable

\* C4 as stated: AddRule of a rule whose name a stored rule has fails with
\* the rule-already-exists error, whatever the rule, and changes nothing.
C4_DuplicateAlwaysAlreadyExists ==
    [][(last'.op = "AddRule" /\ HasRuleNamed(Rules, last'.rule.Name)) =>
            /\ last'.err = "RuleAlreadyExistsError"
            /\ Rules' = Rules
            /\ RuleIndex' = RuleIndex]_vars

\* C4 amended: AddRule of a rule whose name a stored rule has fails and
\* changes neither the table nor the index; the error is rule-already-exists
\* when the rule passes the earlier checks (valid top-level operators,
\* conditions not both nil), and the error of the failing check otherwise.
C4_DuplicateRejected ==
    [][(last'.op = "AddRule" /\ HasRuleNamed(Rules, last'.rule.Name)) =>
            /\ last'.err # ""
            /\ Admissible(last'.rule) <=> last'.err = "RuleAlreadyExistsError"
            /\ Rules' = Rules
            /\ RuleIndex' = RuleIndex]_vars

C4_Witness ==
    /\ last.op = "AddRule"
    /\ last.err = "RuleAlreadyExistsError"
    /\ \E k \in DOMAIN Rules :
          /\ Rules[k].Name = last.rule.Name
          /\ Rules[k].Priority # last.rule.Priority
          /\ Rules[k].Conditions # last.rule.Conditions

\* C5: RemoveRule succeeds only on a key of the rule table; it fails with
\* rule-does-not-exist on a name removed before and not added since, and on
\* a name that is not in the table (never added).
C5_RemoveOnlyExisting ==
    [][last'.op = "RemoveRule" =>
            /\ last'.err = "" => last'.name \in DOMAIN Rules
            /\ last'.name \in removed => last'.err = "RuleDoesNotExistError"
            /\ last'.name \notin DOMAIN Rules => last'.err = "RuleDoesNotExistError"
            /\ last'.err = "" => last'.name \notin DOMAIN Rules']_vars

C5_Witness ==
    /\ last.op = "RemoveRule"
    /\ last.err = "RuleDoesNotExistError"
    /\ last.name \in removed
    /\ Rules # EmptyTable

C7_AllMeansEvery ==
    (last.op = "Evaluate" /\ Cardinality(DOMAIN Rules) = 1) =>
        \A k \in DOMAIN Rules :
            LET r == Rules[k]
            IN  (Len(r.Conditions.All) > 0 /\ Len(r.Conditions.Any) = 0) =>
                    IF AllSatisfied(r.Conditions.All, last.fact)
                    THEN Len(last.result.from) = 1
                    ELSE Len(last.result.from) = 0

\* C8: for the rule of the engine, its `all` conditions satisfied and its
\* `any` list not empty: Evaluate gives one event if some `any` condition is
\* satisfied and no event if none is.
C8_AnyMeansSome ==
    (last.op = "Evaluate" /\ Cardinality(DOMAIN Rules) = 1) =>
        \A k \in DOMAIN Rules :
            LET r == Rules[k]
            IN  (Len(r.Conditions.Any) > 0 /\ AllSatisfied(r.Conditions.All, last.fact)) =>
                    IF SomeSatisfied(r.Conditions.Any, last.fact)
                    THEN Len(last.result.from) = 1
                    ELSE Len(last.result.from) = 0

\* C9: the events of one Evaluate call are in the order of the priorities
\* of their rules, the lower priority number first.
C9_EventsInPriorityOrder ==
    last.op = "Evaluate" =>
        \A i, j \in 1..Len(last.result.from) :
            i < j => last.result.from[i].Priority <= last.result.from[j].Priority

\* C10: one Evaluate call evaluates a rule at most once, gives at most one
\* event per rule name and at most one error per rule.
C10_EvaluatedOnce ==
    last.op = "Evaluate" =>
        /\ NoRepeat(last.result.tried)
        /\ NoRepeat(last.result.failed)
        /\ NoRepeat([i \in 1..Len(last.result.from) |-> last.result.from[i].Name])

\* the candidates of an Evaluate call: the entries of the buckets of the
\* fact names of the input fact
Candidates(index, fact) ==
    UNION {{index[f][i] : i \in 1..Len(index[f])} : f \in DOMAIN fact \cap DOMAIN index}

\* no other candidate has the name of c
OnlyOfItsName(c, cands) == \A d \in cands : d.Name = c.Name => d = c

\* C11: an evaluation error of a candidate does not abort Evaluate: every
\* candidate name is evaluated, every candidate that is satisfied without
\* error has its event in the result, every candidate that fails has its error
\* in the combined error, and the call returns an error exactly when some
\* rule failed.  A candidate is taken by its name, as the engine does; where
\* two different entries have one name the statement is about the name.
C11_ErrorsDoNotAbort ==
    last.op = "Evaluate" =>
        LET cands == Candidates(RuleIndex, last.fact)
            res   == last.result
        IN  /\ \A c \in cands : \E i \in 1..Len(res.tried) : res.tried[i] = c.Name
            /\ \A c \in cands : OnlyOfItsName(c, cands) =>
                  LET out == RuleEvaluate(c, last.fact, ReportFacts)
                  IN  /\ out.err # "" =>
                            \E i \in 1..Len(res.failed) :
                                res.failed[i] = c.Name /\ res.errors[i] = out.err
                      /\ (out.err = "" /\ out.sat) =>
                            \E i \in 1..Len(res.from) : res.from[i] = c
            /\ Len(res.events) = Len(res.from)
            /\ Len(res.errors) = Len(res.failed)
            /\ (last.err # "") <=> (res.errors # <<>>)

\* an Evaluate call whose first candidate failed and that still returned an
\* event of a later candidate
C11_Witness ==
    /\ last.op = "Evaluate"
    /\ last.err = "multierror"
    /\ Len(last.result.tried) > 1
    /\ last.result.tried[1] = last.result.failed[1]
    /\ Len(last.result.events) > 0

\* the operators a leaf may have
ClaimedOperators ==
    {"equal", "notEqual", "greaterThan", "greaterThanOrEqual",
     "lessThan", "lessThanOrEqual", "contains", "notContains"}

\* the list has a leaf whose operator is none of them
InvalidLeafIn(conditions) ==
    \E i \in 1..Len(conditions) :
        /\ Len(conditions[i].All) = 0 /\ Len(conditions[i].Any) = 0
        /\ conditions[i].Operator \notin ClaimedOperators

InvalidTopLevel(rule) ==
    InvalidLeafIn(rule.Conditions.All) \/ InvalidLeafIn(rule.Conditions.Any)

\* C13: AddRule and UpdateRule of a rule that has, in its top-level `all` or
\* `any` list, a leaf with an operator outside the eight operators return an
\* error and leave table and index as they were; no such rule is ever in the
\* table or in a bucket of the index, so Evaluate never meets one.
C13_InvalidOperatorRejected ==
    [][/\ (last'.op \in {"AddRule", "UpdateRule"} /\ InvalidTopLevel(last'.rule)) =>
              /\ last'.err # ""
              /\ Rules' = Rules
              /\ RuleIndex' = RuleIndex
       /\ \A k \in DOMAIN Rules' : ~InvalidTopLevel(Rules'[k])
       /\ \A f \in DOMAIN RuleIndex' : \A i \in 1..Len(RuleIndex'[f]) :
              ~InvalidTopLevel(RuleIndex'[f][i])]_vars

\* UpdateRule of a stored rule by a rule with an invalid operator in its
\* `any` list was rejected
C13_Witness ==
    /\ last.op = "UpdateRule"
    /\ last.err = "InvalidRuleError"
    /\ InvalidLeafIn(last.rule.Conditions.Any)
    /\ last.name \in DOMAIN Rules
    /\ removed # {}

\* the rule has no condition at all
NoCondition(rule) == Len(rule.Conditions.All) = 0 /\ Len(rule.Conditions.Any) = 0

\* C20: AddRule of a rule whose `all` and `any` lists are both empty, nil or
\* present with zero elements, returns an error and leaves table and index as
\* they were, so that AddRule never stores a rule without a condition.
C20_EmptyConditionsRejected ==
    [][(last'.op = "AddRule" /\ NoCondition(last'.rule)) =>
          /\ last'.err # ""
          /\ Rules' = Rules
          /\ RuleIndex' = RuleIndex]_vars

\* an evaluation that ends the loop of evaluateConditions
Decided(r) == r.err # "" \/ r.sat

\* the leaves that evaluateConditions(conditions, fact) evaluates, in order:
\* the loop goes on until a condition fails or is satisfied
RECURSIVE VisitsOf(_, _)
RECURSIVE VisitsOfCondition(_, _)
VisitsOf(conditions, fact) ==
    IF conditions = <<>> THEN <<>>
    ELSE VisitsOfCondition(Head(conditions), fact) \o
         (IF Decided(ConditionEvaluate(Head(conditions), fact)) THEN <<>>
          ELSE VisitsOf(Tail(conditions), fact))

\* the leaves that condition.Evaluate(fact) evaluates
VisitsOfCondition(condition, fact) ==
    IF Len(condition.All) > 0 \/ Len(condition.Any) > 0
    THEN VisitsOf(condition.All, fact) \o
         (IF Decided(evaluateConditions(condition.All, fact)) THEN <<>>
          ELSE VisitsOf(condition.Any, fact))
    ELSE <<condition>>

\* the leaves that r.Evaluate(fact, _) evaluates
RuleVisits(r, fact) ==
    VisitsOf(r.Conditions.All, fact) \o
    (IF \/ evaluateConditions(r.Conditions.All, fact).err # ""
        \/ (~evaluateConditions(r.Conditions.All, fact).sat /\ Len(r.Conditions.All) > 0)
     THEN <<>>
     ELSE VisitsOf(r.Conditions.Any, fact))

\* the leaves of a list of conditions, at every depth
RECURSIVE LeavesOf(_)
LeavesOf(conditions) ==
    IF conditions = <<>> THEN {}
    ELSE LET c == Head(conditions)
         IN  (IF Len(c.All) > 0 \/ Len(c.Any) > 0
              THEN LeavesOf(c.All) \cup LeavesOf(c.Any) ELSE {c})
             \cup LeavesOf(Tail(conditions))

RuleLeaves(r) == LeavesOf(r.Conditions.All) \cup LeavesOf(r.Conditions.Any)

\* the call gave an error of that text for the rule of that name
FailedWith(result, name, err) ==
    \E i \in 1..Len(result.failed) : result.failed[i] = name /\ result.errors[i] = err

\* the call gave an event from that rule
EventFrom(result, rule) == \E i \in 1..Len(result.from) : result.from[i] = rule

OrderOperators == {"greaterThan", "greaterThanOrEqual", "lessThan", "lessThanOrEqual"}

\* the value is a number or a string that reads as a number
Numeric(v) ==
    \/ v.kind \in {"int", "float64"}
    \/ v.kind = "string" /\ ParseFloat(v.str).ok

\* C15: when a leaf with one of the four order operators is evaluated on a
\* fact that has its fact name, and the fact value or the literal is not a
\* number (a string that is no numeral, a boolean, a sequence), the
\* evaluation of the leaf is an error, not 'not satisfied', and the rule gives
\* an error and no event.
C15_CoercionFailureIsError ==
    last.op = "Evaluate" =>
        \A c \in Candidates(RuleIndex, last.fact) :
            LET visits == RuleVisits(c, last.fact)
            IN  \A i \in 1..Len(visits) :
                    (/\ visits[i].Operator \in OrderOperators
                     /\ visits[i].Fact \in DOMAIN last.fact
                     /\ \/ ~Numeric(last.fact[visits[i].Fact])
                        \/ ~Numeric(visits[i].Value)) =>
                        /\ ConditionEvaluate(visits[i], last.fact).err # ""
                        /\ ~ConditionEvaluate(visits[i], last.fact).sat
                        /\ \E k \in 1..Len(last.result.failed) :
                              last.result.failed[k] = c.Name
                        /\ ~EventFrom(last.result, c)

\* an order comparison of a boolean fact value with a number failed
C15_Witness ==
    /\ last.op = "Evaluate"
    /\ last.err # ""
    /\ last.fact["b"].kind = "bool"
    /\ \E k \in DOMAIN Rules : \E l \in RuleLeaves(Rules[k]) :
          l.Operator \in OrderOperators /\ l.Value.kind = "int"

\* C12: when the evaluation of a candidate rule comes to a leaf whose fact
\* name the input fact does not have, then under the policy "Error" Evaluate
\* gives an error for that rule, and under the policy "Ignore" the leaf is not
\* satisfied and gives no error.
C12_UnmatchedFactPolicy ==
    last.op = "Evaluate" =>
        \A c \in Candidates(RuleIndex, last.fact) :
            LET visits == RuleVisits(c, last.fact)
            IN  \A i \in 1..Len(visits) :
                    (/\ visits[i].Operator \in validOperators
                     /\ visits[i].Fact \notin DOMAIN last.fact) =>
                        /\ UnmatchedFactBehavior = "Error" =>
                              \E k \in 1..Len(last.result.failed) :
                                  last.result.failed[k] = c.Name
                        /\ UnmatchedFactBehavior = "Ignore" =>
                              ConditionEvaluate(visits[i], last.fact) = Unsat

\* C17: Evaluate never changes the engine state: a call leaves the rule table
\* and every index bucket, event templates included, as they were, and the
\* facts and values of every event it returns are those that the evaluation
\* of the rule on the fact of this call appends to the template: nothing is
\* left over from another call and nothing comes from a concurrent evaluation
\* of the same rule.
C17_EvaluateLeavesEngineAlone ==
    [][last'.op = "Evaluate" =>
          /\ Rules' = Rules
          /\ RuleIndex' = RuleIndex
          /\ \A i \in 1..Len(last'.result.events) :
                /\ last'.result.events[i].Facts =
                      RuleEvaluate(last'.result.from[i], last'.fact, ReportFacts).Event.Facts
                /\ last'.result.events[i].Values =
                      RuleEvaluate(last'.result.from[i], last'.fact, ReportFacts).Event.Values]_vars

\* C18: with fact reporting on, every event that Evaluate returns has Facts
\* and Values of one length, each Facts[j] is a key of the input fact and the
\* fact name of a satisfied leaf of the rule, and Values[j] is the value of
\* the input fact for that key; with fact reporting off the event has exactly
\* the Facts and Values of the template of the rule.
C18_ReportedFactsAreMatched ==
    last.op = "Evaluate" =>
        \A i \in 1..Len(last.result.events) :
            IF ReportFacts
            THEN /\ Len(last.result.events[i].Facts) = Len(last.result.events[i].Values)
                 /\ \A j \in 1..Len(last.result.events[i].Facts) :
                       /\ last.result.events[i].Facts[j] \in DOMAIN last.fact
                       /\ \E l \in RuleLeaves(last.result.from[i]) :
                             /\ l.Fact = last.result.events[i].Facts[j]
                             /\ ConditionEvaluate(l, last.fact).sat
                       /\ last.result.events[i].Values[j] =
                             last.fact[last.result.events[i].Facts[j]]
            ELSE /\ last.result.events[i].Facts = last.result.from[i].Event.Facts
                 /\ last.result.events[i].Values = last.result.from[i].Event.Values

\* C19: with the report-rule-name option on, every event that Evaluate returns
\* has the name of the rule that produced it, and the rule table holds that
\* rule under that name; with the option off the event has the rule name of
\* the template of the rule.
C19_EventNamesItsRule ==
    last.op = "Evaluate" =>
        \A i \in 1..Len(last.result.events) :
            IF ReportRuleName
            THEN /\ last.result.events[i].RuleName = last.result.from[i].Name
                 /\ last.result.events[i].RuleName \in DOMAIN Rules
                 /\ Rules[last.result.events[i].RuleName] = last.result.from[i]
            ELSE last.result.events[i].RuleName = last.result.from[i].Event.RuleName

\* C16: every read and every write of the rule table and of the rule index by
\* AddRule, RemoveRule, UpdateRule and Evaluate is made while the goroutine
\* holds the lock of the engine, a write in write mode; and a mutating call
\* makes all its accesses, from the existence check to the update of the
\* index, under one and the same taking of the write lock.
C16_AccessUnderLock ==
    \A g \in Goroutines :
        /\ \A i \in 1..Len(running[g].accesses) :
              /\ running[g].accesses[i].mode # "none"
              /\ running[g].accesses[i].kind = "write" =>
                    running[g].accesses[i].mode = "write"
        /\ running[g].op \in {"AddRule", "RemoveRule", "UpdateRule"} =>
              \A i, j \in 1..Len(running[g].accesses) :
                  /\ running[g].accesses[i].mode = "write"
                  /\ running[g].accesses[i].locks = running[g].accesses[j].locks

\* the fact names of the leaves of a rule
LeafFactsOf(r) == {l.Fact : l \in RuleLeaves(r)}

\* the bucket is in the order of nondecreasing priority number
SortedBucket(bucket) ==
    \A i, j \in 1..Len(bucket) : i < j => bucket[i].Priority <= bucket[j].Priority

\* C21: after a successful UpdateRule(name, newRule) the table holds newRule
\* under name and the index holds newRule only: no entry of the old version is
\* left in any bucket, newRule is in exactly the buckets of the fact names of
\* its leaves, and each such bucket is in priority order, so that a later
\* Evaluate sees newRule alone.
C21_UpdateReplacesRule ==
    [][(last'.op = "UpdateRule" /\ last'.err = "") =>
          /\ Rules'[last'.name] = last'.rule
          /\ \A f \in DOMAIN RuleIndex' : \A i \in 1..Len(RuleIndex'[f]) :
                RuleIndex'[f][i] = Rules[last'.name] => Rules[last'.name] = last'.rule
          /\ \A f \in DOMAIN RuleIndex' :
                (\E i \in 1..Len(RuleIndex'[f]) : RuleIndex'[f][i] = last'.rule)
                    <=> f \in LeafFactsOf(last'.rule)
          /\ \A f \in LeafFactsOf(last'.rule) : SortedBucket(RuleIndex'[f])]_vars

\* the errors of a result, each with the name of the rule that failed
ErrorSet(result) == {<<result.failed[i], result.errors[i]>> : i \in 1..Len(result.errors)}

\* C22: Evaluate is deterministic: on one rule table and index and one input
\* fact, the call returns the same events in the same order and the same set
\* of errors in whatever order the range over the input fact visits its keys.
C22_EvaluateDeterministic ==
    last.op = "Evaluate" =>
        \A order \in Orders(last.fact) :
            /\ Evaluate(RuleIndex, last.fact, order, ReportFacts, ReportRuleName).events
                  = last.result.events
            /\ ErrorSet(Evaluate(RuleIndex, last.fact, order, ReportFacts, ReportRuleName))
                  = ErrorSet(last.result)

\* the two numbers differ by no more than the tolerance of 1e-9
WithinTolerance(a, b) == a.m = b.m /\ Abs(a.t - b.t) <= epsilon

\* a exceeds b by more than the tolerance
ExceedsTolerance(a, b) == a.m > b.m \/ (a.m = b.m /\ a.t - b.t > epsilon)

\* C23: the order comparisons use a tolerance of 1e-9.  For a leaf on a fact
\* value f and a literal v, both numbers: greaterThanOrEqual and
\* lessThanOrEqual are satisfied when f and v differ by no more than the
\* tolerance (and when f is above, resp. below, v); greaterThan is satisfied
\* only when f exceeds v by more than the tolerance, lessThan only when v
\* exceeds f by more than it.  The rule of that single leaf gives its event
\* exactly when the leaf is satisfied.
C23_ToleranceInComparisons ==
    last.op = "Evaluate" =>
        \A c \in Candidates(RuleIndex, last.fact) :
            \A l \in RuleLeaves(c) :
                (/\ l.Operator \in OrderOperators
                 /\ l.Fact \in DOMAIN last.fact
                 /\ Numeric(last.fact[l.Fact])
                 /\ Numeric(l.Value)) =>
                    /\ (/\ l.Operator \in {"greaterThanOrEqual", "lessThanOrEqual"}
                        /\ WithinTolerance(convertToFloat64(last.fact[l.Fact]),
                                           convertToFloat64(l.Value)))
                          => ConditionEvaluate(l, last.fact).sat
                    /\ (/\ l.Operator = "greaterThanOrEqual"
                        /\ ExceedsTolerance(convertToFloat64(last.fact[l.Fact]),
                                            convertToFloat64(l.Value)))
                          => ConditionEvaluate(l, last.fact).sat
                    /\ (/\ l.Operator = "lessThanOrEqual"
                        /\ ExceedsTolerance(convertToFloat64(l.Value),
                                            convertToFloat64(last.fact[l.Fact])))
                          => ConditionEvaluate(l, last.fact).sat
                    /\ (l.Operator = "greaterThan" /\ ConditionEvaluate(l, last.fact).sat)
                          => ExceedsTolerance(convertToFloat64(last.fact[l.Fact]),
                                              convertToFloat64(l.Value))
                    /\ (l.Operator = "lessThan" /\ ConditionEvaluate(l, last.fact).sat)
                          => ExceedsTolerance(convertToFloat64(l.Value),
                                              convertToFloat64(last.fact[l.Fact]))
                    /\ ConditionEvaluate(l, last.fact).err = ""
                    /\ c.Conditions.All = <<l>> /\ c.Conditions.Any = <<>>
                          => (EventFrom(last.result, c) <=> ConditionEvaluate(l, last.fact).sat)

\* the fact value 30.0000000001 met the literal 30 under greaterThanOrEqual
\* and the rule gave its event
C23_Witness ==
    /\ last.op = "Evaluate"
    /\ last.fact = [f \in {"b"} |-> FloatVal(30000, 1)]
    /\ \E k \in DOMAIN Rules :
          /\ Rules[k].Conditions.All = <<Leaf("b", "greaterThanOrEqual", IntVal(30))>>
          /\ EventFrom(last.result, Rules[k])

\* the string sub is a part of the string s
IsSubstring(sub, s) ==
    \E i \in 1..(Len(s) + 1) : \E j \in (i - 1)..Len(s) : SubSeq(s, i, j) = sub

\* the fact value is a string that has the string literal as a substring, or a
\* sequence of strings that has it as a member
HasLiteral(factValue, literal) ==
    \/ factValue.kind = "string" /\ IsSubstring(literal.str, factValue.str)
    \/ /\ factValue.kind = "[]string"
       /\ \E i \in 1..Len(factValue.list) : factValue.list[i] = literal.str

\* C24: a `contains` leaf with a string literal is satisfied exactly when the
\* fact value is a string that has the literal as a substring or a sequence of
\* strings that has it as a member; a `notContains` leaf exactly when the fact
\* value is a string or a sequence of strings and does not; neither is
\* satisfied, and neither fails, for a fact value of another type.  A rule of
\* that one leaf gives its event exactly when the leaf is satisfied.
C24_ContainsAndNotContains ==
    last.op = "Evaluate" =>
        \A c \in Candidates(RuleIndex, last.fact) :
            \A l \in RuleLeaves(c) :
                (/\ l.Operator \in {"contains", "notContains"}
                 /\ l.Fact \in DOMAIN last.fact
                 /\ l.Value.kind = "string") =>
                    /\ l.Operator = "contains" =>
                          (ConditionEvaluate(l, last.fact).sat
                              <=> HasLiteral(last.fact[l.Fact], l.Value))
                    /\ l.Operator = "notContains" =>
                          (ConditionEvaluate(l, last.fact).sat
                              <=> /\ last.fact[l.Fact].kind \in {"string", "[]string"}
                                  /\ ~HasLiteral(last.fact[l.Fact], l.Value))
                    /\ ConditionEvaluate(l, last.fact).err = ""
                    /\ RuleLeaves(c) = {l} =>
                          (EventFrom(last.result, c) <=> ConditionEvaluate(l, last.fact).sat)

\* the fact value ["run", "swim"] met the literal "swim" under `contains`
\* and the rule gave its event
C24_Witness ==
    /\ last.op = "Evaluate"
    /\ last.fact = [f \in {"b"} |-> StrsVal(<<run, swim>>)]
    /\ \E k \in DOMAIN Rules :
          /\ Rules[k].Conditions.All = <<Leaf("b", "contains", StrVal(swim))>>
          /\ EventFrom(last.result, Rules[k])

\* the first check that the rule fails, in the order name, operators,
\* conditions, duplicate; "" when it passes all four
FirstFailing(rule, rules) ==
    IF rule.Name = "" THEN "name"
    ELSE IF InvalidTopLevel(rule) THEN "operator"
    ELSE IF NoCondition(rule) THEN "conditions"
    ELSE IF HasRuleNamed(rules, rule.Name) THEN "duplicate"
    ELSE ""

\* the check that an error of AddRule stands for
CheckOf(err) ==
    CASE err = "EmptyRuleNameError"     -> "name"
      [] err = "invalid operator"       -> "operator"
      [] err = "NilRuleConditionsError" -> "conditions"
      [] err = "RuleAlreadyExistsError" -> "duplicate"
      [] OTHER                          -> ""

\* C25: the error of AddRule is that of the first check the rule fails, in
\* the order: name not empty, operators valid, conditions not empty, name not
\* stored yet; it is nil exactly for a rule that passes all four.
C25_EarliestCheckReported ==
    [][last'.op = "AddRule" =>
          CheckOf(last'.err) = FirstFailing(last'.rule, Rules)]_vars

\* bucket `new` is bucket `old` with n entries of the rule r put in behind the
\* entries of old whose priority number is not above that of r
InsertedBehindEqual(old, new, r) ==
    LET before == Cardinality({i \in 1..Len(old) : old[i].Priority <= r.Priority})
    IN  /\ Len(new) >= Len(old)
        /\ new = SubSeq(old, 1, before)
                 \o [i \in 1..(Len(new) - Len(old)) |-> r]
                 \o SubSeq(old, before + 1, Len(old))

\* bucket `new` is bucket `old`, or bucket `old` without one of its entries
OneTakenOut(old, new) ==
    \/ new = old
    \/ \E i \in 1..Len(old) : new = SubSeq(old, 1, i - 1) \o SubSeq(old, i + 1, Len(old))

RECURSIVE LeafCount(_, _)
LeafCount(conditions, f) ==
    IF conditions = <<>> THEN 0
    ELSE LET c == Head(conditions)
         IN  (IF Len(c.All) > 0 \/ Len(c.Any) > 0
              THEN LeafCount(c.All, f) + LeafCount(c.Any, f)
              ELSE IF c.Fact = f THEN 1 ELSE 0)
             + LeafCount(Tail(conditions), f)

RuleLeafCount(r, f) == LeafCount(r.Conditions.All, f) + LeafCount(r.Conditions.Any, f)

\* C27: an AddRule that stores a rule registers it once for every leaf of its
\* tree under the fact name of the leaf and nowhere else: bucket f gains as
\* many entries of the rule as the rule has leaves of fact name f, and a
\* composite node adds no entry, so the bucket of the empty fact name gains
\* none.
C27_OneEntryPerLeaf ==
    [][(last'.op = "AddRule" /\ last'.err = "") =>
          \A f \in DOMAIN RuleIndex' :
              Count(RuleIndex'[f], last'.rule) - Count(RuleIndex[f], last'.rule)
                  = RuleLeafCount(last'.rule, f)]_vars

\* the conditions of a list and below them, at every depth
RECURSIVE NodesOf(_)
NodesOf(conditions) ==
    IF conditions = <<>> THEN {}
    ELSE {Head(conditions)} \cup NodesOf(Head(conditions).All)
         \cup NodesOf(Head(conditions).Any) \cup NodesOf(Tail(conditions))

\* the composite conditions of a rule: those that have children
CompositesOf(r) ==
    {c \in NodesOf(r.Conditions.All) \cup NodesOf(r.Conditions.Any) :
        Len(c.All) > 0 \/ Len(c.Any) > 0}

\* C28: a composite condition of the evaluated rule, at any depth, is
\* satisfied only if every child of its `all` list is satisfied and, its
\* `any` list not being empty, one child of its `any` list is satisfied too.
C28_CompositeNeedsEveryAllChild ==
    last.op = "Evaluate" =>
        \A k \in DOMAIN Rules : \A c \in CompositesOf(Rules[k]) :
            ConditionEvaluate(c, last.fact).sat =>
                /\ \A i \in 1..Len(c.All) : ConditionEvaluate(c.All[i], last.fact).sat
                /\ Len(c.Any) > 0 =>
                       \E i \in 1..Len(c.Any) : ConditionEvaluate(c.Any[i], last.fact).sat

\* the matched facts of a result with their values, position by position
Matched(r) == {<<r.facts[i], r.values[i]>> : i \in 1..Len(r.facts)}

\* the matched facts and values of the satisfied conditions of a list
MatchedBySatisfied(conditions, fact) ==
    UNION {Matched(ConditionEvaluate(conditions[i], fact)) :
               i \in {j \in 1..Len(conditions) : ConditionEvaluate(conditions[j], fact).sat}}

\* C29: a composite condition of the evaluated rule that is satisfied, every
\* child of its `all` list being satisfied, returns as matched facts and
\* values those of all its satisfied children, of the `all` list and of the
\* `any` list, and as many values as facts.
C29_MatchedFactsOfAllSatisfied ==
    last.op = "Evaluate" =>
        \A k \in DOMAIN Rules : \A c \in CompositesOf(Rules[k]) :
            (/\ ConditionEvaluate(c, last.fact).sat
             /\ \A i \in 1..Len(c.All) : ConditionEvaluate(c.All[i], last.fact).sat) =>
                /\ Len(ConditionEvaluate(c, last.fact).facts)
                       = Len(ConditionEvaluate(c, last.fact).values)
                /\ Matched(ConditionEvaluate(c, last.fact))
                       = MatchedBySatisfied(c.All, last.fact)
                         \cup MatchedBySatisfied(c.Any, last.fact)

\* the events and errors that Evaluate gives on the index, for the orders in
\* which the range over the fact can go
ResultsOn(index, fact) ==
    {[events |-> Evaluate(index, fact, o, ReportFacts, ReportRuleName).events,
      errors |-> ErrorSet(Evaluate(index, fact, o, ReportFacts, ReportRuleName))] :
         o \in Orders(fact)}

\* C30: an Evaluate call that runs while AddRule, RemoveRule and UpdateRule
\* calls run is atomic with respect to them: the events and errors that it
\* returns are those of Evaluate on the index as it was when the call
\* started or as one of the mutating calls that ran during it left it.
C30_EvaluateOnOneIndexState ==
    [][\A g \in Goroutines :
          (running[g].pc = "rules" /\ running'[g].pc = "idle" /\ running[g].seen # {}) =>
              \E index \in running[g].seen :
                  [events |-> last'.result.events, errors |-> ErrorSet(last'.result)]
                      \in ResultsOn(index, running[g].fact)]_vars

\* C31: of two AddRule calls of one name that run at the same time on an
\* engine that does not hold the name, one succeeds and the other fails with
\* the rule-already-exists error: no AddRule call stores its rule under a name
\* that the table holds at that moment.
C31_OneOfTwoAddRulesSucceeds ==
    [][\A g \in Goroutines :
          (/\ running[g].op = "AddRule"
           /\ running[g].pc = "store"
           /\ running'[g].pc = "addToIndex") =>
              running[g].name \notin DOMAIN Rules]_vars

\* the entries of a bucket that are rules of the set, in their order
EntriesOf(bucket, rules) ==
    LET Among(e) == e \in rules
    IN  SelectSeq(bucket, Among)

\* the rules that the table holds under the keys other than name, those equal
\* to the old or to the new rule of name left out
OtherRules(rules, name, newRule) ==
    {rules[k] : k \in DOMAIN rules \ {name}} \ {rules[name], newRule}

\* C32: a successful UpdateRule(name, newRule) leaves the keys of the table as
\* they are and touches no other rule: the table entries under the other keys
\* are the same, and in every bucket the entries of the rules stored under the
\* other keys are the same, in the same order.
C32_UpdateTouchesOneRule ==
    [][(last'.op = "UpdateRule" /\ last'.err = "") =>
          /\ DOMAIN Rules' = DOMAIN Rules
          /\ \A k \in DOMAIN Rules \ {last'.name} : Rules'[k] = Rules[k]
          /\ \A f \in DOMAIN RuleIndex :
                EntriesOf(RuleIndex'[f], OtherRules(Rules, last'.name, last'.rule))
                    = EntriesOf(RuleIndex[f], OtherRules(Rules, last'.name, last'.rule))]_vars

\* C33: in every state the rule stored in the table under key k has the name
\* k, so that the names of the stored rules are unique and not empty; so it
\* is after an UpdateRule(name, newRule) with a newRule of another name too.
C33_NameIsKey ==
    \A k \in DOMAIN Rules : Rules[k].Name = k /\ k # ""

\* C34: in every state every rule of the table passes the checks of AddRule
\* other than the duplicate check: its name is not empty, its `all` and `any`
\* lists are not both empty, and the leaves of its top-level lists have valid
\* operators; UpdateRule stores no rule that AddRule would reject.
C34_StoredRulesAreAdmissible ==
    \A k \in DOMAIN Rules :
        /\ Rules[k].Name # ""
        /\ ~NoCondition(Rules[k])
        /\ ~InvalidTopLevel(Rules[k])

\* the rules of the table that have a leaf on a fact name of the fact and
\* that Rule.Evaluate reports as satisfied by it
BruteForce(rules, fact, reportFacts) ==
    {rules[k] : k \in {n \in DOMAIN rules :
                          /\ LeafFactsOf(rules[n]) \cap DOMAIN fact # {}
                          /\ RuleEvaluate(rules[n], fact, reportFacts).sat}}

\* C35: an Evaluate call without evaluation errors gives events from the
\* rules that the brute-force evaluation of the table finds, and from no
\* other: the rules that gave an event are rules of the table, and their names
\* are the names of the table rules that have a leaf on a fact name of the
\* fact and are satisfied by it.
C35_IndexAgreesWithTable ==
    (last.op = "Evaluate" /\ last.result.errors = <<>>) =>
        /\ \A i \in 1..Len(last.result.from) :
              \E k \in DOMAIN Rules : Rules[k] = last.result.from[i]
        /\ {last.result.from[i].Name : i \in 1..Len(last.result.from)}
               = {r.Name : r \in BruteForce(Rules, last.fact, ReportFacts)}

\* C36: under fair scheduling every AddRule, RemoveRule, UpdateRule and
\* Evaluate call that has started returns, whatever calls run at the same time.
C36_EveryCallReturns ==
    \A g \in Goroutines : (running[g].pc # "idle") ~> (running[g].pc = "idle")

\* the leaf with its operator replaced by op is satisfied by the fact
SatisfiedUnder(l, op, fact) == ConditionEvaluate([l EXCEPT !.Operator = op], fact).sat

\* C37: on numbers the strict and the non-strict comparisons are complements
\* of each other: for the fact value f and the literal v of an evaluated leaf,
\* exactly one of greaterThan(f, v) and lessThanOrEqual(f, v) is satisfied,
\* and exactly one of lessThan(f, v) and greaterThanOrEqual(f, v).
C37_StrictAndNonStrictComplement ==
    last.op = "Evaluate" =>
        \A c \in Candidates(RuleIndex, last.fact) :
            \A l \in RuleLeaves(c) :
                (/\ l.Operator \in OrderOperators
                 /\ l.Fact \in DOMAIN last.fact
                 /\ Numeric(last.fact[l.Fact])
                 /\ Numeric(l.Value)) =>
                    /\ SatisfiedUnder(l, "greaterThan", last.fact)
                           # SatisfiedUnder(l, "lessThanOrEqual", last.fact)
                    /\ SatisfiedUnder(l, "lessThan", last.fact)
                           # SatisfiedUnder(l, "greaterThanOrEqual", last.fact)

\* C38: the AddRule handler answers 201 only if the rule of the request is
\* stored in the table by that request, and answers 400 and leaves the engine
\* as it was when the decoded rule has an empty name, no condition in `all`
\* and `any`, or an empty event type; a request whose rule the engine rejects
\* is not answered with 201.
C38_CreatedMeansStored ==
    [][(last'.op = "Handler.AddRule") =>
          /\ last'.status = StatusCreated =>
                /\ last'.rule.Name \notin DOMAIN Rules
                /\ Rules' = Put(Rules, last'.rule.Name, last'.rule)
          /\ (last'.rule # NoRule /\ MissingFields(last'.rule)) =>
                /\ last'.status = StatusBadRequest
                /\ Rules' = Rules
                /\ RuleIndex' = RuleIndex
          /\ last'.err # "" => last'.status # StatusCreated]_vars

====
